---------------------------- MODULE Spec2Model ----------------------------
(***************************************************************************)
(* A model of the RAG question-answering system:                           *)
(*   - backend/retrieval/planner.py    the keyword planner                 *)
(*   - backend/retrieval/retriever.py  the hybrid retriever                *)
(*   - backend/main.py                 the /chat, /upload, /memory         *)
(*                                     endpoints and the streaming         *)
(*                                     generator of /chat                  *)
(*   - app.py                          the standalone UI's upload handling *)
(* A Python str is the sequence of its Unicode code points.                *)
(***************************************************************************)
EXTENDS Integers, Sequences, FiniteSets, TLC

VARIABLES
    pq,        \* planner run: the question handed to planner()
    pres,      \* planner run: the list planner() returned
    ppc,       \* planner run: "called" until planner() has returned
    hr,        \* retriever run: the frame of one hybrid_retrieve call
    response_cache,  \* backend: cache.response_cache, question -> answer
    chat_memory,     \* backend: memory.chat_memory, session -> list of turns
    qdrant,          \* backend: the vector store, collection -> points
    req,             \* backend: the POST /chat requests, by arrival number
    finished,        \* backend (history): the requests whose generator ran its
                     \* finally block, in the order in which they did
    up,              \* backend: the POST /upload requests, by arrival number
    tempdirs,        \* backend: the temporary directories that exist
    ui_memo,         \* UI: the st.cache_resource entries of
                     \* load_and_process_pdf, file_path -> result
    ui_computing,    \* UI: the paths whose entry a call is computing
    ui_disk,         \* UI: the files on disk, path -> bytes
    ui_key,          \* UI: whether GEMINI_API_KEY is set
    ui_sess          \* UI: per browser session, st.session_state and the
                     \* value of the file uploader

varsP == <<pq, pres, ppc>>
varsR == <<hr>>
varsB == <<response_cache, chat_memory, qdrant, req, finished, up, tempdirs>>
varsU == <<ui_memo, ui_computing, ui_disk, ui_key, ui_sess>>

-----------------------------------------------------------------------------
(* Python str values. A str is the sequence of its Unicode code points;   *)
(* Str gives the str that a literal of ASCII characters writes.            *)

\* ord(c) for the characters a literal is written with: U+0020 to U+005F
\* and U+0061 to U+007E in code order, and the escapes
CodePointOf ==
    LET fromSpace == " !\"#$%&'()*+,-./0123456789:;<=>?@ABCDEFGHIJKLMNOPQRSTUVWXYZ[\\]^_"
        fromLowerA == "abcdefghijklmnopqrstuvwxyz{|}~"
    IN  [c \in {SubSeq(fromSpace, i, i) : i \in 1..Len(fromSpace)}
               \cup {SubSeq(fromLowerA, i, i) : i \in 1..Len(fromLowerA)}
               \cup {"\t", "\n", "\f", "\r"} |->
            CASE c = "\t" -> 9
              [] c = "\n" -> 10
              [] c = "\f" -> 12
              [] c = "\r" -> 13
              [] \E i \in 1..Len(fromSpace) : SubSeq(fromSpace, i, i) = c ->
                    31 + (CHOOSE i \in 1..Len(fromSpace) : SubSeq(fromSpace, i, i) = c)
              [] OTHER ->
                    96 + (CHOOSE i \in 1..Len(fromLowerA) : SubSeq(fromLowerA, i, i) = c)]

\* the str a literal writes
Str(s) == [i \in 1..Len(s) |-> CodePointOf[SubSeq(s, i, i)]]

\* c lies in one of the ranges <<first, last>>
InRanges(c, ranges) == \E r \in ranges : r[1] <= c /\ c <= r[2]

\* The characters whose str.lower() is another single character, as runs
\* <<first, last, step, delta>>: every step-th character from first to last
\* is lowered by adding delta (A to Z by adding 32).
LowerRuns ==
    {<<65, 90, 1, 32>>, <<192, 214, 1, 32>>, <<216, 222, 1, 32>>, <<256, 302, 2, 1>>,
     <<306, 310, 2, 1>>, <<313, 327, 2, 1>>, <<330, 374, 2, 1>>, <<376, 376, 1, -121>>,
     <<377, 381, 2, 1>>, <<385, 385, 1, 210>>, <<386, 388, 2, 1>>, <<390, 390, 1, 206>>,
     <<391, 391, 1, 1>>, <<393, 394, 1, 205>>, <<395, 395, 1, 1>>, <<398, 398, 1, 79>>,
     <<399, 399, 1, 202>>, <<400, 400, 1, 203>>, <<401, 401, 1, 1>>, <<403, 403, 1, 205>>,
     <<404, 404, 1, 207>>, <<406, 406, 1, 211>>, <<407, 407, 1, 209>>, <<408, 408, 1, 1>>,
     <<412, 412, 1, 211>>, <<413, 413, 1, 213>>, <<415, 415, 1, 214>>, <<416, 420, 2, 1>>,
     <<422, 422, 1, 218>>, <<423, 423, 1, 1>>, <<425, 425, 1, 218>>, <<428, 428, 1, 1>>,
     <<430, 430, 1, 218>>, <<431, 431, 1, 1>>, <<433, 434, 1, 217>>, <<435, 437, 2, 1>>,
     <<439, 439, 1, 219>>, <<440, 440, 1, 1>>, <<444, 444, 1, 1>>, <<452, 452, 1, 2>>,
     <<453, 453, 1, 1>>, <<455, 455, 1, 2>>, <<456, 456, 1, 1>>, <<458, 458, 1, 2>>,
     <<459, 475, 2, 1>>, <<478, 494, 2, 1>>, <<497, 497, 1, 2>>, <<498, 500, 2, 1>>,
     <<502, 502, 1, -97>>, <<503, 503, 1, -56>>, <<504, 542, 2, 1>>, <<544, 544, 1, -130>>,
     <<546, 562, 2, 1>>, <<570, 570, 1, 10795>>, <<571, 571, 1, 1>>, <<573, 573, 1, -163>>,
     <<574, 574, 1, 10792>>, <<577, 577, 1, 1>>, <<579, 579, 1, -195>>, <<580, 580, 1, 69>>,
     <<581, 581, 1, 71>>, <<582, 590, 2, 1>>, <<880, 882, 2, 1>>, <<886, 886, 1, 1>>,
     <<895, 895, 1, 116>>, <<902, 902, 1, 38>>, <<904, 906, 1, 37>>, <<908, 908, 1, 64>>,
     <<910, 911, 1, 63>>, <<913, 929, 1, 32>>, <<931, 939, 1, 32>>, <<975, 975, 1, 8>>,
     <<984, 1006, 2, 1>>, <<1012, 1012, 1, -60>>, <<1015, 1015, 1, 1>>, <<1017, 1017, 1, -7>>,
     <<1018, 1018, 1, 1>>, <<1021, 1023, 1, -130>>, <<1024, 1039, 1, 80>>, <<1040, 1071, 1, 32>>,
     <<1120, 1152, 2, 1>>, <<1162, 1214, 2, 1>>, <<1216, 1216, 1, 15>>, <<1217, 1229, 2, 1>>,
     <<1232, 1326, 2, 1>>, <<1329, 1366, 1, 48>>, <<4256, 4293, 1, 7264>>, <<4295, 4295, 1, 7264>>,
     <<4301, 4301, 1, 7264>>, <<5024, 5103, 1, 38864>>, <<5104, 5109, 1, 8>>, <<7312, 7354, 1, -3008>>,
     <<7357, 7359, 1, -3008>>, <<7680, 7828, 2, 1>>, <<7838, 7838, 1, -7615>>, <<7840, 7934, 2, 1>>,
     <<7944, 7951, 1, -8>>, <<7960, 7965, 1, -8>>, <<7976, 7983, 1, -8>>, <<7992, 7999, 1, -8>>,
     <<8008, 8013, 1, -8>>, <<8025, 8031, 2, -8>>, <<8040, 8047, 1, -8>>, <<8072, 8079, 1, -8>>,
     <<8088, 8095, 1, -8>>, <<8104, 8111, 1, -8>>, <<8120, 8121, 1, -8>>, <<8122, 8123, 1, -74>>,
     <<8124, 8124, 1, -9>>, <<8136, 8139, 1, -86>>, <<8140, 8140, 1, -9>>, <<8152, 8153, 1, -8>>,
     <<8154, 8155, 1, -100>>, <<8168, 8169, 1, -8>>, <<8170, 8171, 1, -112>>, <<8172, 8172, 1, -7>>,
     <<8184, 8185, 1, -128>>, <<8186, 8187, 1, -126>>, <<8188, 8188, 1, -9>>, <<8486, 8486, 1, -7517>>,
     <<8490, 8490, 1, -8383>>, <<8491, 8491, 1, -8262>>, <<8498, 8498, 1, 28>>, <<8544, 8559, 1, 16>>,
     <<8579, 8579, 1, 1>>, <<9398, 9423, 1, 26>>, <<11264, 11311, 1, 48>>, <<11360, 11360, 1, 1>>,
     <<11362, 11362, 1, -10743>>, <<11363, 11363, 1, -3814>>, <<11364, 11364, 1, -10727>>, <<11367, 11371, 2, 1>>,
     <<11373, 11373, 1, -10780>>, <<11374, 11374, 1, -10749>>, <<11375, 11375, 1, -10783>>, <<11376, 11376, 1, -10782>>,
     <<11378, 11378, 1, 1>>, <<11381, 11381, 1, 1>>, <<11390, 11391, 1, -10815>>, <<11392, 11490, 2, 1>>,
     <<11499, 11501, 2, 1>>, <<11506, 11506, 1, 1>>, <<42560, 42604, 2, 1>>, <<42624, 42650, 2, 1>>,
     <<42786, 42798, 2, 1>>, <<42802, 42862, 2, 1>>, <<42873, 42875, 2, 1>>, <<42877, 42877, 1, -35332>>,
     <<42878, 42886, 2, 1>>, <<42891, 42891, 1, 1>>, <<42893, 42893, 1, -42280>>, <<42896, 42898, 2, 1>>,
     <<42902, 42920, 2, 1>>, <<42922, 42922, 1, -42308>>, <<42923, 42923, 1, -42319>>, <<42924, 42924, 1, -42315>>,
     <<42925, 42925, 1, -42305>>, <<42926, 42926, 1, -42308>>, <<42928, 42928, 1, -42258>>, <<42929, 42929, 1, -42282>>,
     <<42930, 42930, 1, -42261>>, <<42931, 42931, 1, 928>>, <<42932, 42946, 2, 1>>, <<42948, 42948, 1, -48>>,
     <<42949, 42949, 1, -42307>>, <<42950, 42950, 1, -35384>>, <<42951, 42953, 2, 1>>, <<42960, 42960, 1, 1>>,
     <<42966, 42968, 2, 1>>, <<42997, 42997, 1, 1>>, <<65313, 65338, 1, 32>>, <<66560, 66599, 1, 40>>,
     <<66736, 66771, 1, 40>>, <<66928, 66964, 2, 39>>, <<66929, 66937, 2, 39>>, <<66941, 66953, 2, 39>>,
     <<66957, 66961, 2, 39>>, <<66965, 66965, 1, 39>>, <<68736, 68786, 1, 64>>, <<71840, 71871, 1, 32>>,
     <<93760, 93791, 1, 32>>, <<125184, 125217, 1, 34>>}

\* str.lower() on those characters
LowerOf ==
    [c \in UNION {{r[1] + r[3] * k : k \in 0..((r[2] - r[1]) \div r[3])} : r \in LowerRuns} |->
        c + (CHOOSE r \in LowerRuns :
                /\ r[1] <= c /\ c <= r[2]
                /\ (c - r[1]) % r[3] = 0)[4]]

\* str.lower() on a str of one character c: U+0130 becomes the two
\* characters U+0069 U+0307, the characters of LowerRuns their lower-case
\* form, every other character itself
LowerChar(c) ==
    IF c = 304 THEN <<105, 775>>
    ELSE IF c \in DOMAIN LowerOf THEN <<LowerOf[c]>>
    ELSE <<c>>

\* the characters that have the property Case_Ignorable, which str.lower()
\* passes over when it looks for the letters around a capital sigma
CaseIgnorableRanges ==
    {<<39, 39>>, <<46, 46>>, <<58, 58>>, <<94, 94>>, <<96, 96>>,
     <<168, 168>>, <<173, 173>>, <<175, 175>>, <<180, 180>>, <<183, 184>>,
     <<688, 879>>, <<884, 885>>, <<890, 890>>, <<900, 901>>, <<903, 903>>,
     <<1155, 1161>>, <<1369, 1369>>, <<1375, 1375>>, <<1425, 1469>>, <<1471, 1471>>,
     <<1473, 1474>>, <<1476, 1477>>, <<1479, 1479>>, <<1524, 1524>>, <<1536, 1541>>,
     <<1552, 1562>>, <<1564, 1564>>, <<1600, 1600>>, <<1611, 1631>>, <<1648, 1648>>,
     <<1750, 1757>>, <<1759, 1768>>, <<1770, 1773>>, <<1807, 1807>>, <<1809, 1809>>,
     <<1840, 1866>>, <<1958, 1968>>, <<2027, 2037>>, <<2042, 2042>>, <<2045, 2045>>,
     <<2070, 2093>>, <<2137, 2139>>, <<2184, 2184>>, <<2192, 2193>>, <<2200, 2207>>,
     <<2249, 2306>>, <<2362, 2362>>, <<2364, 2364>>, <<2369, 2376>>, <<2381, 2381>>,
     <<2385, 2391>>, <<2402, 2403>>, <<2417, 2417>>, <<2433, 2433>>, <<2492, 2492>>,
     <<2497, 2500>>, <<2509, 2509>>, <<2530, 2531>>, <<2558, 2558>>, <<2561, 2562>>,
     <<2620, 2620>>, <<2625, 2626>>, <<2631, 2632>>, <<2635, 2637>>, <<2641, 2641>>,
     <<2672, 2673>>, <<2677, 2677>>, <<2689, 2690>>, <<2748, 2748>>, <<2753, 2757>>,
     <<2759, 2760>>, <<2765, 2765>>, <<2786, 2787>>, <<2810, 2815>>, <<2817, 2817>>,
     <<2876, 2876>>, <<2879, 2879>>, <<2881, 2884>>, <<2893, 2893>>, <<2901, 2902>>,
     <<2914, 2915>>, <<2946, 2946>>, <<3008, 3008>>, <<3021, 3021>>, <<3072, 3072>>,
     <<3076, 3076>>, <<3132, 3132>>, <<3134, 3136>>, <<3142, 3144>>, <<3146, 3149>>,
     <<3157, 3158>>, <<3170, 3171>>, <<3201, 3201>>, <<3260, 3260>>, <<3263, 3263>>,
     <<3270, 3270>>, <<3276, 3277>>, <<3298, 3299>>, <<3328, 3329>>, <<3387, 3388>>,
     <<3393, 3396>>, <<3405, 3405>>, <<3426, 3427>>, <<3457, 3457>>, <<3530, 3530>>,
     <<3538, 3540>>, <<3542, 3542>>, <<3633, 3633>>, <<3636, 3642>>, <<3654, 3662>>,
     <<3761, 3761>>, <<3764, 3772>>, <<3782, 3782>>, <<3784, 3789>>, <<3864, 3865>>,
     <<3893, 3893>>, <<3895, 3895>>, <<3897, 3897>>, <<3953, 3966>>, <<3968, 3972>>,
     <<3974, 3975>>, <<3981, 3991>>, <<3993, 4028>>, <<4038, 4038>>, <<4141, 4144>>,
     <<4146, 4151>>, <<4153, 4154>>, <<4157, 4158>>, <<4184, 4185>>, <<4190, 4192>>,
     <<4209, 4212>>, <<4226, 4226>>, <<4229, 4230>>, <<4237, 4237>>, <<4253, 4253>>,
     <<4348, 4348>>, <<4957, 4959>>, <<5906, 5908>>, <<5938, 5939>>, <<5970, 5971>>,
     <<6002, 6003>>, <<6068, 6069>>, <<6071, 6077>>, <<6086, 6086>>, <<6089, 6099>>,
     <<6103, 6103>>, <<6109, 6109>>, <<6155, 6159>>, <<6211, 6211>>, <<6277, 6278>>,
     <<6313, 6313>>, <<6432, 6434>>, <<6439, 6440>>, <<6450, 6450>>, <<6457, 6459>>,
     <<6679, 6680>>, <<6683, 6683>>, <<6742, 6742>>, <<6744, 6750>>, <<6752, 6752>>,
     <<6754, 6754>>, <<6757, 6764>>, <<6771, 6780>>, <<6783, 6783>>, <<6823, 6823>>,
     <<6832, 6862>>, <<6912, 6915>>, <<6964, 6964>>, <<6966, 6970>>, <<6972, 6972>>,
     <<6978, 6978>>, <<7019, 7027>>, <<7040, 7041>>, <<7074, 7077>>, <<7080, 7081>>,
     <<7083, 7085>>, <<7142, 7142>>, <<7144, 7145>>, <<7149, 7149>>, <<7151, 7153>>,
     <<7212, 7219>>, <<7222, 7223>>, <<7288, 7293>>, <<7376, 7378>>, <<7380, 7392>>,
     <<7394, 7400>>, <<7405, 7405>>, <<7412, 7412>>, <<7416, 7417>>, <<7468, 7530>>,
     <<7544, 7544>>, <<7579, 7679>>, <<8125, 8125>>, <<8127, 8129>>, <<8141, 8143>>,
     <<8157, 8159>>, <<8173, 8175>>, <<8189, 8190>>, <<8203, 8207>>, <<8216, 8217>>,
     <<8228, 8228>>, <<8231, 8231>>, <<8234, 8238>>, <<8288, 8292>>, <<8294, 8303>>,
     <<8305, 8305>>, <<8319, 8319>>, <<8336, 8348>>, <<8400, 8432>>, <<11388, 11389>>,
     <<11503, 11505>>, <<11631, 11631>>, <<11647, 11647>>, <<11744, 11775>>, <<11823, 11823>>,
     <<12293, 12293>>, <<12330, 12333>>, <<12337, 12341>>, <<12347, 12347>>, <<12441, 12446>>,
     <<12540, 12542>>, <<40981, 40981>>, <<42232, 42237>>, <<42508, 42508>>, <<42607, 42610>>,
     <<42612, 42621>>, <<42623, 42623>>, <<42652, 42655>>, <<42736, 42737>>, <<42752, 42785>>,
     <<42864, 42864>>, <<42888, 42890>>, <<42994, 42996>>, <<43000, 43001>>, <<43010, 43010>>,
     <<43014, 43014>>, <<43019, 43019>>, <<43045, 43046>>, <<43052, 43052>>, <<43204, 43205>>,
     <<43232, 43249>>, <<43263, 43263>>, <<43302, 43309>>, <<43335, 43345>>, <<43392, 43394>>,
     <<43443, 43443>>, <<43446, 43449>>, <<43452, 43453>>, <<43471, 43471>>, <<43493, 43494>>,
     <<43561, 43566>>, <<43569, 43570>>, <<43573, 43574>>, <<43587, 43587>>, <<43596, 43596>>,
     <<43632, 43632>>, <<43644, 43644>>, <<43696, 43696>>, <<43698, 43700>>, <<43703, 43704>>,
     <<43710, 43711>>, <<43713, 43713>>, <<43741, 43741>>, <<43756, 43757>>, <<43763, 43764>>,
     <<43766, 43766>>, <<43867, 43871>>, <<43881, 43883>>, <<44005, 44005>>, <<44008, 44008>>,
     <<44013, 44013>>, <<64286, 64286>>, <<64434, 64450>>, <<65024, 65039>>, <<65043, 65043>>,
     <<65056, 65071>>, <<65106, 65106>>, <<65109, 65109>>, <<65279, 65279>>, <<65287, 65287>>,
     <<65294, 65294>>, <<65306, 65306>>, <<65342, 65342>>, <<65344, 65344>>, <<65392, 65392>>,
     <<65438, 65439>>, <<65507, 65507>>, <<65529, 65531>>, <<66045, 66045>>, <<66272, 66272>>,
     <<66422, 66426>>, <<67456, 67461>>, <<67463, 67504>>, <<67506, 67514>>, <<68097, 68099>>,
     <<68101, 68102>>, <<68108, 68111>>, <<68152, 68154>>, <<68159, 68159>>, <<68325, 68326>>,
     <<68900, 68903>>, <<69291, 69292>>, <<69446, 69456>>, <<69506, 69509>>, <<69633, 69633>>,
     <<69688, 69702>>, <<69744, 69744>>, <<69747, 69748>>, <<69759, 69761>>, <<69811, 69814>>,
     <<69817, 69818>>, <<69821, 69821>>, <<69826, 69826>>, <<69837, 69837>>, <<69888, 69890>>,
     <<69927, 69931>>, <<69933, 69940>>, <<70003, 70003>>, <<70016, 70017>>, <<70070, 70078>>,
     <<70089, 70092>>, <<70095, 70095>>, <<70191, 70193>>, <<70196, 70196>>, <<70198, 70199>>,
     <<70206, 70206>>, <<70367, 70367>>, <<70371, 70378>>, <<70400, 70401>>, <<70459, 70460>>,
     <<70464, 70464>>, <<70502, 70508>>, <<70512, 70516>>, <<70712, 70719>>, <<70722, 70724>>,
     <<70726, 70726>>, <<70750, 70750>>, <<70835, 70840>>, <<70842, 70842>>, <<70847, 70848>>,
     <<70850, 70851>>, <<71090, 71093>>, <<71100, 71101>>, <<71103, 71104>>, <<71132, 71133>>,
     <<71219, 71226>>, <<71229, 71229>>, <<71231, 71232>>, <<71339, 71339>>, <<71341, 71341>>,
     <<71344, 71349>>, <<71351, 71351>>, <<71453, 71455>>, <<71458, 71461>>, <<71463, 71467>>,
     <<71727, 71735>>, <<71737, 71738>>, <<71995, 71996>>, <<71998, 71998>>, <<72003, 72003>>,
     <<72148, 72151>>, <<72154, 72155>>, <<72160, 72160>>, <<72193, 72202>>, <<72243, 72248>>,
     <<72251, 72254>>, <<72263, 72263>>, <<72273, 72278>>, <<72281, 72283>>, <<72330, 72342>>,
     <<72344, 72345>>, <<72752, 72758>>, <<72760, 72765>>, <<72767, 72767>>, <<72850, 72871>>,
     <<72874, 72880>>, <<72882, 72883>>, <<72885, 72886>>, <<73009, 73014>>, <<73018, 73018>>,
     <<73020, 73021>>, <<73023, 73029>>, <<73031, 73031>>, <<73104, 73105>>, <<73109, 73109>>,
     <<73111, 73111>>, <<73459, 73460>>, <<78896, 78904>>, <<92912, 92916>>, <<92976, 92982>>,
     <<92992, 92995>>, <<94031, 94031>>, <<94095, 94111>>, <<94176, 94177>>, <<94179, 94180>>,
     <<110576, 110579>>, <<110581, 110587>>, <<110589, 110590>>, <<113821, 113822>>, <<113824, 113827>>,
     <<118528, 118573>>, <<118576, 118598>>, <<119143, 119145>>, <<119155, 119170>>, <<119173, 119179>>,
     <<119210, 119213>>, <<119362, 119364>>, <<121344, 121398>>, <<121403, 121452>>, <<121461, 121461>>,
     <<121476, 121476>>, <<121499, 121503>>, <<121505, 121519>>, <<122880, 122886>>, <<122888, 122904>>,
     <<122907, 122913>>, <<122915, 122916>>, <<122918, 122922>>, <<123184, 123197>>, <<123566, 123566>>,
     <<123628, 123631>>, <<125136, 125142>>, <<125252, 125259>>, <<127995, 127999>>, <<917505, 917505>>,
     <<917536, 917631>>, <<917760, 917999>>}

\* the characters that have the property Cased
CasedRanges ==
    {<<65, 90>>, <<97, 122>>, <<170, 170>>, <<181, 181>>, <<186, 186>>,
     <<192, 214>>, <<216, 246>>, <<248, 442>>, <<444, 447>>, <<452, 659>>,
     <<661, 696>>, <<704, 705>>, <<736, 740>>, <<837, 837>>, <<880, 883>>,
     <<886, 887>>, <<890, 893>>, <<895, 895>>, <<902, 902>>, <<904, 906>>,
     <<908, 908>>, <<910, 929>>, <<931, 1013>>, <<1015, 1153>>, <<1162, 1327>>,
     <<1329, 1366>>, <<1376, 1416>>, <<4256, 4293>>, <<4295, 4295>>, <<4301, 4301>>,
     <<4304, 4346>>, <<4349, 4351>>, <<5024, 5109>>, <<5112, 5117>>, <<7296, 7304>>,
     <<7312, 7354>>, <<7357, 7359>>, <<7424, 7615>>, <<7680, 7957>>, <<7960, 7965>>,
     <<7968, 8005>>, <<8008, 8013>>, <<8016, 8023>>, <<8025, 8025>>, <<8027, 8027>>,
     <<8029, 8029>>, <<8031, 8061>>, <<8064, 8116>>, <<8118, 8124>>, <<8126, 8126>>,
     <<8130, 8132>>, <<8134, 8140>>, <<8144, 8147>>, <<8150, 8155>>, <<8160, 8172>>,
     <<8178, 8180>>, <<8182, 8188>>, <<8305, 8305>>, <<8319, 8319>>, <<8336, 8348>>,
     <<8450, 8450>>, <<8455, 8455>>, <<8458, 8467>>, <<8469, 8469>>, <<8473, 8477>>,
     <<8484, 8484>>, <<8486, 8486>>, <<8488, 8488>>, <<8490, 8493>>, <<8495, 8500>>,
     <<8505, 8505>>, <<8508, 8511>>, <<8517, 8521>>, <<8526, 8526>>, <<8544, 8575>>,
     <<8579, 8580>>, <<9398, 9449>>, <<11264, 11492>>, <<11499, 11502>>, <<11506, 11507>>,
     <<11520, 11557>>, <<11559, 11559>>, <<11565, 11565>>, <<42560, 42605>>, <<42624, 42653>>,
     <<42786, 42887>>, <<42891, 42894>>, <<42896, 42954>>, <<42960, 42961>>, <<42963, 42963>>,
     <<42965, 42969>>, <<42997, 42998>>, <<43000, 43002>>, <<43824, 43866>>, <<43868, 43880>>,
     <<43888, 43967>>, <<64256, 64262>>, <<64275, 64279>>, <<65313, 65338>>, <<65345, 65370>>,
     <<66560, 66639>>, <<66736, 66771>>, <<66776, 66811>>, <<66928, 66938>>, <<66940, 66954>>,
     <<66956, 66962>>, <<66964, 66965>>, <<66967, 66977>>, <<66979, 66993>>, <<66995, 67001>>,
     <<67003, 67004>>, <<67456, 67456>>, <<67459, 67461>>, <<67463, 67504>>, <<67506, 67514>>,
     <<68736, 68786>>, <<68800, 68850>>, <<71840, 71903>>, <<93760, 93823>>, <<119808, 119892>>,
     <<119894, 119964>>, <<119966, 119967>>, <<119970, 119970>>, <<119973, 119974>>, <<119977, 119980>>,
     <<119982, 119993>>, <<119995, 119995>>, <<119997, 120003>>, <<120005, 120069>>, <<120071, 120074>>,
     <<120077, 120084>>, <<120086, 120092>>, <<120094, 120121>>, <<120123, 120126>>, <<120128, 120132>>,
     <<120134, 120134>>, <<120138, 120144>>, <<120146, 120485>>, <<120488, 120512>>, <<120514, 120538>>,
     <<120540, 120570>>, <<120572, 120596>>, <<120598, 120628>>, <<120630, 120654>>, <<120656, 120686>>,
     <<120688, 120712>>, <<120714, 120744>>, <<120746, 120770>>, <<120772, 120779>>, <<122624, 122633>>,
     <<122635, 122654>>, <<125184, 125251>>, <<127280, 127305>>, <<127312, 127337>>, <<127344, 127369>>}

RECURSIVE SkipBack(_, _)
\* the nearest position at or before i whose character is not
\* case-ignorable, 0 when there is none
SkipBack(s, i) ==
    IF i = 0 \/ ~InRanges(s[i], CaseIgnorableRanges) THEN i ELSE SkipBack(s, i - 1)

RECURSIVE SkipForward(_, _)
SkipForward(s, i) ==
    IF i > Len(s) \/ ~InRanges(s[i], CaseIgnorableRanges) THEN i ELSE SkipForward(s, i + 1)

\* the capital sigma at position i ends a word: a cased letter stands
\* before it and none after it
FinalSigma(s, i) ==
    LET before == SkipBack(s, i - 1)
        after == SkipForward(s, i + 1)
    IN  /\ before > 0
        /\ InRanges(s[before], CasedRanges)
        /\ (after > Len(s) \/ ~InRanges(s[after], CasedRanges))

RECURSIVE LowerFrom(_, _)
\* capital sigma (U+03A3) becomes final sigma (U+03C2) at the end of a
\* word and small sigma (U+03C3, by LowerRuns) elsewhere
LowerFrom(s, i) ==
    IF i > Len(s) THEN <<>>
    ELSE (IF s[i] = 931 /\ FinalSigma(s, i) THEN <<962>> ELSE LowerChar(s[i]))
         \o LowerFrom(s, i + 1)

\* str.lower()
Lower(s) == LowerFrom(s, 1)

\* the characters for which str.isspace() is true, which str.strip()
\* removes
IsSpace(c) ==
    InRanges(c, {<<9, 13>>, <<28, 32>>, <<133, 133>>, <<160, 160>>, <<5760, 5760>>,
                 <<8192, 8202>>, <<8232, 8233>>, <<8239, 8239>>, <<8287, 8287>>,
                 <<12288, 12288>>})

RECURSIVE LStrip(_)
LStrip(s) == IF s # <<>> /\ IsSpace(s[1]) THEN LStrip(SubSeq(s, 2, Len(s))) ELSE s

RECURSIVE RStrip(_)
RStrip(s) ==
    IF s # <<>> /\ IsSpace(s[Len(s)]) THEN RStrip(SubSeq(s, 1, Len(s) - 1)) ELSE s

\* a normalising key: strip and fold the case (a plausible slip)
StripAndFold(s) == Lower(RStrip(LStrip(s)))

\* str.strip()
Strip(s) == RStrip(LStrip(s))

\* sub in s
Contains(s, sub) ==
    \E i \in 1..(Len(s) - Len(sub) + 1) : SubSeq(s, i, i + Len(sub) - 1) = sub

\* s.endswith(suf)
EndsWith(s, suf) ==
    /\ Len(s) >= Len(suf)
    /\ SubSeq(s, Len(s) - Len(suf) + 1, Len(s)) = suf

-----------------------------------------------------------------------------
(* backend/retrieval/planner.py *)

\* the keywords of the rules
Keywords ==
    [api |-> Str("api"), function |-> Str("function"), code |-> Str("code"),
     how |-> Str("how"), faq |-> Str("faq"), help |-> Str("help")]

\* a plausible slip: the how/faq/help rule tested before the api/function/code rule
planner_rules_swapped(question) ==
    LET q == Lower(question) IN
    IF Contains(q, Keywords.how) \/ Contains(q, Keywords.faq) \/ Contains(q, Keywords.help)
    THEN <<"faq_data", "knowledge_base">>
    ELSE IF Contains(q, Keywords.api) \/ Contains(q, Keywords.function) \/ Contains(q, Keywords.code)
    THEN <<"code_docs", "research_papers">>
    ELSE <<"research_papers", "knowledge_base">>

planner(question) ==
    LET q == Lower(question) IN
    IF Contains(q, Keywords.api) \/ Contains(q, Keywords.function) \/ Contains(q, Keywords.code)
    THEN <<"code_docs", "research_papers">>
    ELSE IF Contains(q, Keywords.how) \/ Contains(q, Keywords.faq) \/ Contains(q, Keywords.help)
    THEN <<"faq_data", "knowledge_base">>
    ELSE <<"research_papers", "knowledge_base">>

-----------------------------------------------------------------------------
(* backend/retrieval/retriever.py *)
(* A raw similarity score is held in hundredths (0..100) and a confidence  *)
(* multiplier in tenths; their product is the IEEE double the code         *)
(* computes, held as FloatProduct says.                                    *)

KnownCollections == {"research_papers", "knowledge_base", "code_docs", "faq_data"}

\* COLLECTION_CONFIDENCE, in tenths
COLLECTION_CONFIDENCE ==
    [c \in KnownCollections |->
        CASE c = "research_papers" -> 10
          [] c = "knowledge_base"  -> 8
          [] c = "code_docs"       -> 12
          [] c = "faq_data"        -> 7]

\* COLLECTION_CONFIDENCE.get(collection, 1.0), in tenths
ConfidenceDefault == 10
Confidence(collection) ==
    IF collection \in DOMAIN COLLECTION_CONFIDENCE
    THEN COLLECTION_CONFIDENCE[collection]
    ELSE ConfidenceDefault

KCodeDocs == 5
KOther == 3
dynamic_k(name) == IF name = "code_docs" THEN KCodeDocs ELSE KOther

\* seq[:n]
Take(seq, n) == SubSeq(seq, 1, IF Len(seq) < n THEN Len(seq) ELSE n)

RECURSIVE WithText(_)
\* [point for point in points if "text" in point.payload]
WithText(points) ==
    IF points = <<>> THEN <<>>
    ELSE (IF Head(points).hasText THEN <<Head(points)>> ELSE <<>>)
         \o WithText(Tail(points))

\* rewrite_query: llm.invoke fails, or answers `content`
RewriteFailed == [failed |-> TRUE, content |-> <<>>]
MinRewriteLen == 3
rewrite_query(question, llmOut) ==
    IF llmOut.failed THEN question
    ELSE LET rewritten == Strip(llmOut.content) IN
         IF rewritten # <<>> /\ Len(rewritten) > MinRewriteLen THEN rewritten ELSE question

\* The scores s (hundredths) for which the double product
\* (s/100) * (confidence/10) is one unit in the last place below the double
\* nearest to the exact s * confidence / 1000, and those for which it is one
\* above; for every other score in 0..100, and for the confidence 1.0, the
\* product is that nearest double.
FloatRoundsBelow(confidence) ==
    CASE confidence = 7 ->
            {1, 2, 3, 4, 5, 6, 8, 10, 12, 16, 19, 20, 24, 29, 32, 33, 35, 38, 39,
             40, 47, 48, 49, 57, 58, 63, 64, 65, 66, 69, 70, 71, 75, 76, 77, 78,
             79, 80, 94, 95, 96, 97, 98}
      [] confidence = 8 -> {29, 35, 57, 58, 69, 70}
      [] confidence = 12 -> {19, 38, 39, 41, 57, 75, 76, 77, 78, 82, 83}
      [] OTHER -> {}

FloatRoundsAbove(confidence) ==
    CASE confidence = 8 ->
            {5, 7, 10, 11, 13, 14, 19, 20, 22, 23, 26, 27, 28, 38, 39, 40, 43, 44,
             45, 46, 51, 52, 53, 54, 55, 56, 75, 76, 77, 78, 79, 80, 81, 86, 87,
             88, 89, 90, 91, 92, 93}
      [] confidence = 12 -> {17, 34, 68}
      [] OTHER -> {}

\* point.score * confidence in double arithmetic, as an integer that orders
\* as the doubles do: UlpSpan times the exact product in thousandths, plus
\* or minus one where the double product lies above or below the double
\* nearest to the exact product (0.9 * 0.8 > 0.72 * 1.0, 0.75 * 1.2 < 0.9)
UlpSpan == 4
FloatProduct(score, confidence) ==
    score * confidence * UlpSpan
    + (IF score \in FloatRoundsAbove(confidence) THEN 1
       ELSE IF score \in FloatRoundsBelow(confidence) THEN -1
       ELSE 0)

\* (text, score * confidence) of every point that has a "text" payload
Scored(points, confidence) ==
    LET withText == WithText(points)
    IN  [i \in 1..Len(withText) |->
            <<withText[i].text, FloatProduct(withText[i].score, confidence)>>]

\* what a call returns: a value, or an exception escaping to the caller
Returns(v) == [raised |-> FALSE, value |-> v]
Raises == [raised |-> TRUE, value |-> <<>>]

\* qdrant.query_points raises for a collection the store does not have, or
\* when the environment makes the query fail
QueryRaises(store, collection, queryFails) ==
    queryFails \/ collection \notin DOMAIN store

\* retrieve() without its try/except: the failure of one query escapes
retrieve_unguarded(store, collection, queryFails) ==
    IF QueryRaises(store, collection, queryFails)
    THEN Raises
    ELSE Returns(Scored(Take(store[collection], dynamic_k(collection)),
                        Confidence(collection)))

\* retrieve(collection, query_vector): qdrant.query_points returns the
\* collection's best dynamic_k points; [] when anything in the try raises
retrieve(store, collection, queryFails) ==
    IF QueryRaises(store, collection, queryFails)
    THEN Returns(<<>>)
    ELSE Returns(Scored(Take(store[collection], dynamic_k(collection)),
                        Confidence(collection)))

RECURSIVE InsertDesc(_, _)
\* x put into a list sorted by descending score, after every item that is
\* not smaller (list.sort(reverse=True) is stable)
InsertDesc(sorted, x) ==
    IF sorted = <<>> THEN <<x>>
    ELSE IF Head(sorted)[2] >= x[2] THEN <<Head(sorted)>> \o InsertDesc(Tail(sorted), x)
    ELSE <<x>> \o sorted

RECURSIVE SortDesc(_)
\* seq.sort(key=lambda x: x[1], reverse=True)
SortDesc(seq) ==
    IF seq = <<>> THEN <<>>
    ELSE InsertDesc(SortDesc(SubSeq(seq, 1, Len(seq) - 1)), seq[Len(seq)])

RECURSIVE Flatten(_)
\* merged = []; for r in results: merged.extend(r)
Flatten(results) ==
    IF results = <<>> THEN <<>> ELSE Head(results) \o Flatten(Tail(results))

Texts(items) == [i \in 1..Len(items) |-> items[i][1]]

TopVector == 15
TopFinal == 10
MinForRerank == 2

\* bm25.get_scores(rewritten.split()) over the candidates: the library is
\* an input of the model, bm.grade giving each text its score as a rank
\* among the scores (0 the lowest); equal texts score equally
BM25Scores(docs, bm) ==
    [i \in 1..Len(docs) |-> IF docs[i] \in DOMAIN bm.grade THEN bm.grade[docs[i]] ELSE 0]

\* hybrid_retrieve, steps 4 and 5, from the gathered per-collection results
MergeAndRerank(results, bm) ==
    LET merged == Flatten(results)
        top_vector_docs == Texts(Take(SortDesc(merged), TopVector))
    IN  IF merged = <<>> THEN <<>>
        ELSE IF Len(top_vector_docs) < MinForRerank THEN top_vector_docs
        ELSE IF bm.failed THEN Take(top_vector_docs, TopFinal)
        ELSE LET scores == BM25Scores(top_vector_docs, bm)
                 combined == [i \in 1..Len(top_vector_docs) |->
                                <<top_vector_docs[i], scores[i]>>]
             IN  Texts(Take(SortDesc(combined), TopFinal))

-----------------------------------------------------------------------------
(* The vector store the retriever queries: per collection, the points in   *)
(* descending raw score (what qdrant.query_points ranks).                  *)

Pt(t, s) == [text |-> t, score |-> s, hasText |-> TRUE]
PtNoText(s) == [text |-> <<>>, score |-> s, hasText |-> FALSE]

StoreFull ==
    [c \in KnownCollections \cup {"custom"} |->
        CASE c = "research_papers" -> <<Pt(Str("rp1"), 90), Pt(Str("rp2"), 50)>>
          [] c = "knowledge_base"  -> <<Pt(Str("kb1"), 90), PtNoText(60), Pt(Str("kb2"), 30)>>
          [] c = "code_docs"       -> <<Pt(Str("cd1"), 95), Pt(Str("cd2"), 80), Pt(Str("cd3"), 75),
                                        Pt(Str("cd4"), 40), Pt(Str("cd5"), 20), Pt(Str("cd6"), 10)>>
          [] c = "faq_data"        -> <<Pt(Str("fq1"), 99), Pt(Str("fq2"), 60), Pt(Str("fq3"), 50),
                                        Pt(Str("fq4"), 45)>>
          [] c = "custom"          -> <<Pt(Str("cu1"), 72)>>]

\* only one document anywhere, and no code_docs collection at all
StoreSparse ==
    [c \in {"research_papers", "knowledge_base", "faq_data"} |->
        IF c = "research_papers" THEN <<Pt(Str("rp1"), 90)>> ELSE <<>>]

Stores == {StoreFull, StoreSparse}

-----------------------------------------------------------------------------
(* The modules backend/main.py imports that are specified, not given:      *)
(* cache.cache, memory.memory and ingestion.ingestion.                     *)

\* d[k] = v on a dict
DictSet(d, k, v) == [x \in DOMAIN d \cup {k} |-> IF x = k THEN v ELSE d[x]]

\* del d[k], a no-op when k is absent
DictDrop(d, k) == [x \in DOMAIN d \ {k} |-> d[x]]

EmptyDict == [x \in {} |-> <<>>]

\* response_cache[question] = answer
CacheSet(cache, question, answer) == DictSet(cache, question, answer)

\* chat_memory.update(session_id, question, answer)
MemoryUpdate(memory, session_id, question, answer) ==
    DictSet(memory, session_id,
            Append(IF session_id \in DOMAIN memory THEN memory[session_id] ELSE <<>>,
                   <<question, answer>>))

TurnLabels ==
    [user |-> Str("User: "), assistant |-> Str("\nAssistant: "), end |-> Str("\n")]

RECURSIVE RenderTurns(_)
RenderTurns(turns) ==
    IF turns = <<>> THEN <<>>
    ELSE TurnLabels.user \o Head(turns)[1] \o TurnLabels.assistant \o Head(turns)[2]
         \o TurnLabels.end
         \o RenderTurns(Tail(turns))

\* chat_memory.format_history(session_id): the empty str for a session
\* without turns
MemoryFormatHistory(memory, session_id) ==
    IF session_id \in DOMAIN memory THEN RenderTurns(memory[session_id]) ELSE <<>>

\* chat_memory.clear(session_id)
MemoryClear(memory, session_id) == DictDrop(memory, session_id)

ChunkSize == 1000
ChunkOverlap == 200

RECURSIVE SplitText(_)
\* the chunks of a text: windows of ChunkSize characters, each starting
\* ChunkSize - ChunkOverlap after the one before
SplitText(text) ==
    IF text = <<>> THEN <<>>
    ELSE IF Len(text) <= ChunkSize THEN <<text>>
    ELSE <<SubSeq(text, 1, ChunkSize)>>
         \o SplitText(SubSeq(text, ChunkSize - ChunkOverlap + 1, Len(text)))

\* the similarity of an ingested chunk to a query, in hundredths: the
\* embedding model is outside the system, one value stands for it
IngestedScore == 60

\* ingest_pdf(file_path, collection_name): the store after the upsert of the
\* file's chunks, the collection created when absent
IngestPdf(store, text, collection) ==
    LET chunks == SplitText(text)
        points == [i \in 1..Len(chunks) |-> Pt(chunks[i], IngestedScore)]
    IN  DictSet(store, collection,
                (IF collection \in DOMAIN store THEN store[collection] ELSE <<>>)
                \o points)

\* ensure_collections(): the four well-known collections are created where
\* missing; what exists is left as it is
EnsureCollections(store) ==
    [c \in DOMAIN store \cup KnownCollections |->
        IF c \in DOMAIN store THEN store[c] ELSE <<>>]

-----------------------------------------------------------------------------
(* backend/main.py *)

\* the fixed instructions that head the prompt; the dash after "prose" is
\* U+2014
SystemInstructions ==
    Str("Use the following system instructions to answer the user query:\n")
    \o Str("1. Answer questions in clear, concise, flowing prose ") \o <<8212>>
    \o Str(" like a knowledgeable expert speaking naturally.\n")
    \o Str("2. Never use markdown headers (##, ###), bullet points, bold text, or numbered lists unless the user explicitly asks for them.\n")
    \o Str("3. Never include executive summaries, technical deep-dives, or section labels.\n")
    \o Str("4. Do not expose internal source labels, figure references like [Figure 1], or citation numbers like [10] to the user.\n")
    \o Str("5. Synthesize retrieved information into a single coherent paragraph or two. Do not dump document structure.\n")
    \o Str("6. Keep answers concise and direct. Avoid redundancy and over-explanation.\n")

RECURSIVE Join(_, _)
\* sep.join(items)
Join(sep, items) ==
    IF items = <<>> THEN <<>>
    ELSE IF Len(items) = 1 THEN items[1]
    ELSE items[1] \o sep \o Join(sep, Tail(items))

\* the str literals of chat(), generate() and upload_pdf()
Literals ==
    [separator |-> Str("\n\n"),
     no_documents |-> Str("No relevant documents found."),
     memory_heading |-> Str("\nPrevious Conversation:\n"),
     context_heading |-> Str("\n\nRetrieved Information Context:\n"),
     question_heading |-> Str("\n\nUser Question:\n"),
     line_end |-> Str("\n"),
     error_opening |-> Str("\n\n[Error generating response: "),
     error_closing |-> Str("]"),
     pdf_suffix |-> Str(".pdf")]

\* context = "\n\n".join(docs) if docs else "No relevant documents found."
BuildContext(docs) ==
    IF docs # <<>> THEN Join(Literals.separator, docs) ELSE Literals.no_documents

\* the f-string of chat()
BuildPrompt(memory, context, question) ==
    SystemInstructions
    \o Literals.memory_heading \o memory
    \o Literals.context_heading \o context
    \o Literals.question_heading \o question \o Literals.line_end

\* the prompt of the request with the frame q
PromptOf(q) == BuildPrompt(q.memory, q.context, q.question)

\* error_msg = f"\n\n[Error generating response: {str(e)}]"
ErrorMsg(e) == Literals.error_opening \o e \o Literals.error_closing

\* the handler without `full_response += error_msg`: a plausible slip
AppendErrorForgotten(full_response, error_msg) == full_response

\* full_response += error_msg, once generate() is resumed after the yield
AppendError(full_response, error_msg) == full_response \o error_msg

StatusOk == 200
StatusBadRequest == 400
StatusServerError == 500

\* the finally block of generate(): the cache and the memory it leaves
\* (a mutant: the commit made whether or not anything was produced)
FinallyCommitAlways(cache, memory, session_id, question, full_response) ==
    [cache  |-> CacheSet(cache, question, full_response),
     memory |-> MemoryUpdate(memory, session_id, question, full_response),
     committed |-> TRUE]

\* (a mutant: the memory update left out)
FinallyCommitCacheOnly(cache, memory, session_id, question, full_response) ==
    IF full_response # <<>>
    THEN [cache  |-> CacheSet(cache, question, full_response),
          memory |-> memory,
          committed |-> TRUE]
    ELSE [cache |-> cache, memory |-> memory, committed |-> FALSE]

\* (a mutant: the cache store left out)
FinallyCommitMemoryOnly(cache, memory, session_id, question, full_response) ==
    IF full_response # <<>>
    THEN [cache  |-> cache,
          memory |-> MemoryUpdate(memory, session_id, question, full_response),
          committed |-> TRUE]
    ELSE [cache |-> cache, memory |-> memory, committed |-> FALSE]

\* if full_response: chat_memory.update(...); response_cache[question] = ...
FinallyCommit(cache, memory, session_id, question, full_response) ==
    IF full_response # <<>>
    THEN [cache  |-> CacheSet(cache, question, full_response),
          memory |-> MemoryUpdate(memory, session_id, question, full_response),
          committed |-> TRUE]
    ELSE [cache |-> cache, memory |-> memory, committed |-> FALSE]

-----------------------------------------------------------------------------
(* One hybrid_retrieve call on bounded inputs, a step per coroutine that   *)
(* asyncio.gather runs.                                                    *)

MaxSelected == 2
MaxRelevant == 2
MaxGrade == 2

Collections == KnownCollections \cup {"custom"}

RECURSIVE ListsUpTo(_, _)
\* the lists of at most n elements of S
ListsUpTo(S, n) ==
    IF n = 0 THEN {<<>>}
    ELSE LET shorter == ListsUpTo(S, n - 1)
         IN  shorter \cup {Append(l, x) : l \in shorter, x \in S}

SelectedLists == ListsUpTo(Collections, MaxSelected)
RetrQueries == {Str("how to call the api"), Str("x")}
RewriteOutcomes ==
    {RewriteFailed,
     [failed |-> FALSE, content |-> Str(" ok ")],
     [failed |-> FALSE, content |-> Str("  call the api \n")]}

\* the outcomes of the BM25 stage over the candidates `docs`: it raises,
\* or it scores at most MaxRelevant texts above the lowest score, with at
\* most MaxGrade different scores above it
BMOutcomes(docs) ==
    {[failed |-> TRUE, grade |-> <<>>]}
    \cup {[failed |-> FALSE, grade |-> g] :
            g \in UNION {[R -> 1..MaxGrade] :
                          R \in {R0 \in SUBSET {docs[i] : i \in 1..Len(docs)} :
                                   Cardinality(R0) <= MaxRelevant}}}

HRIdle ==
    [pc |-> "idle", query |-> <<>>, selected |-> <<>>, store |-> StoreSparse,
     rewritten |-> <<>>, results |-> <<>>, failed |-> {}, merged |-> <<>>,
     out |-> <<>>]

InitR == hr = HRIdle

\* hybrid_retrieve up to the creation of the tasks (steps 1 to 3)
HybridRetrieveCall ==
    /\ hr.pc = "idle"
    /\ \E query \in RetrQueries, selected \in SelectedLists, store \in Stores,
          llmOut \in RewriteOutcomes :
        hr' = [hr EXCEPT !.pc = "gather", !.query = query, !.selected = selected,
                         !.store = store,
                         !.rewritten = rewrite_query(query, llmOut)]
    /\ UNCHANGED <<varsP, varsB, varsU>>

\* embeddings.embed_query raises: hybrid_retrieve raises before any search
HybridRetrieveEmbedFails ==
    /\ hr.pc = "idle"
    /\ \E query \in RetrQueries, selected \in SelectedLists, store \in Stores,
          llmOut \in RewriteOutcomes :
        hr' = [hr EXCEPT !.pc = "raised", !.query = query, !.selected = selected,
                         !.store = store,
                         !.rewritten = rewrite_query(query, llmOut)]
    /\ UNCHANGED <<varsP, varsB, varsU>>

\* the next retrieve(c, query_vector) coroutine runs; an exception escaping
\* it is raised by asyncio.gather out of hybrid_retrieve
RetrieveTask ==
    /\ hr.pc = "gather"
    /\ Len(hr.results) < Len(hr.selected)
    /\ \E queryFails \in BOOLEAN :
        LET i == Len(hr.results) + 1
            c == hr.selected[i]
            r == retrieve(hr.store, c, queryFails)
        IN  hr' = [hr EXCEPT
                     !.pc = IF r.raised THEN "raised" ELSE "gather",
                     !.results = Append(@, r.value),
                     !.failed = IF QueryRaises(hr.store, c, queryFails)
                                THEN @ \cup {i} ELSE @]
    /\ UNCHANGED <<varsP, varsB, varsU>>

\* every task is done: merge, sort, truncate, rerank (steps 4 and 5)
HybridRetrieveReturn ==
    /\ hr.pc = "gather"
    /\ Len(hr.results) = Len(hr.selected)
    /\ \E bm \in BMOutcomes(Texts(Flatten(hr.results))) :
        hr' = [hr EXCEPT !.pc = "returned",
                         !.merged = Flatten(hr.results),
                         !.out = MergeAndRerank(hr.results, bm)]
    /\ UNCHANGED <<varsP, varsB, varsU>>

NextR ==
    \/ HybridRetrieveCall
    \/ HybridRetrieveEmbedFails
    \/ RetrieveTask
    \/ HybridRetrieveReturn

-----------------------------------------------------------------------------
(* The backend service on bounded inputs: MaxReq POST /chat requests and   *)
(* MaxUploads POST /upload requests, interleaved at the points where the   *)
(* handlers and the streaming generator give up the event loop.            *)

MaxReq == 2
MaxChunks == 2
MaxUploads == 1

Questions == {Str("code"), Str(" code\n"), Str("Code"), Str(" \t") \o <<11, 8195>>}
Sessions == {"default", "s1"}
TokenContents == {Str("a")}
LLMErrors == {Str("quota")}
Filenames == {Str("B.PDF"), Str("notes.txt")}
UploadCollections == {"research_papers"}
UploadText == Str("The capital of France is Paris.")

ReqIdle ==
    [pc |-> "idle", request_question |-> <<>>, question |-> <<>>, selected |-> <<>>,
     session_id |-> "", status |-> 0,
     cached |-> FALSE, answer |-> <<>>, work |-> {}, results |-> <<>>,
     context |-> <<>>, memory |-> <<>>,
     full_response |-> <<>>, sent |-> <<>>, error |-> <<>>,
     committed |-> FALSE, cleared |-> "none", overlaps |-> {}]

UpIdle ==
    [pc |-> "idle", filename |-> <<>>, collection |-> "", status |-> 0,
     chunks_ingested |-> 0, work |-> {}]

\* the store the service finds when it starts
StoreBeforeStart == [c \in {"code_docs"} |-> <<Pt(Str("cd1"), 80)>>]

\* the store after a lifespan() whose ensure_collections returned
StoreAtStart == EnsureCollections(StoreBeforeStart)

\* lifespan(): ensure_collections returned, or it raised, a warning was
\* printed and the service starts on the store as it found it
StoresAfterLifespan == {StoreAtStart, StoreBeforeStart}

InitB ==
    /\ response_cache = EmptyDict
    /\ chat_memory = [x \in {} |-> <<>>]
    /\ qdrant \in StoresAfterLifespan
    /\ req = [r \in 1..MaxReq |-> ReqIdle]
    /\ finished = <<>>
    /\ up = [u \in 1..MaxUploads |-> UpIdle]
    /\ tempdirs = {}

\* the backend idle, in the runs of the other components
IdleB ==
    /\ response_cache = EmptyDict
    /\ chat_memory = [x \in {} |-> <<>>]
    /\ qdrant = StoreAtStart
    /\ req = <<>>
    /\ finished = <<>>
    /\ up = <<>>
    /\ tempdirs = {}

\* requests arrive in the order of their numbers
Arrives(r) ==
    /\ req[r].pc = "idle"
    /\ \A r0 \in 1..(r - 1) : req[r0].pc # "idle"

UNCHANGED_OTHERS == UNCHANGED <<varsP, varsR, varsU>>

\* chat(): question.strip() is empty, HTTP 400
ChatRejectEmpty(r) ==
    /\ Arrives(r)
    /\ \E question \in Questions, session_id \in Sessions :
        LET q == Strip(question) IN
        /\ q = <<>>
        /\ req' = [req EXCEPT ![r] =
                     [@ EXCEPT !.pc = "rejected", !.request_question = question, !.question = q,
                               !.session_id = session_id,
                               !.status = StatusBadRequest,
                               !.work = {"strip"}]]
    /\ UNCHANGED <<response_cache, chat_memory, qdrant, finished, up, tempdirs>>
    /\ UNCHANGED_OTHERS

\* a hit that also records the exchange in the session's memory, as the
\* miss path does: a plausible slip
ChatCacheHitUpdatesMemory(r) ==
    /\ Arrives(r)
    /\ \E question \in Questions, session_id \in Sessions :
        LET q == Strip(question) IN
        /\ q # <<>>
        /\ q \in DOMAIN response_cache
        /\ req' = [req EXCEPT ![r] =
                     [@ EXCEPT !.pc = "hit", !.request_question = question, !.question = q,
                               !.session_id = session_id,
                               !.status = StatusOk, !.cached = TRUE,
                               !.answer = response_cache[q],
                               !.work = {"strip", "cache_lookup"}]]
        /\ chat_memory' = MemoryUpdate(chat_memory, session_id, q, response_cache[q])
    /\ UNCHANGED <<response_cache, qdrant, finished, up, tempdirs>>
    /\ UNCHANGED_OTHERS

\* chat(): the stripped question is in the cache
ChatCacheHit(r) ==
    /\ Arrives(r)
    /\ \E question \in Questions, session_id \in Sessions :
        LET q == Strip(question) IN
        /\ q # <<>>
        /\ q \in DOMAIN response_cache
        /\ req' = [req EXCEPT ![r] =
                     [@ EXCEPT !.pc = "hit", !.request_question = question, !.question = q,
                               !.session_id = session_id,
                               !.status = StatusOk, !.cached = TRUE,
                               !.answer = response_cache[q],
                               !.work = {"strip", "cache_lookup"}]]
    /\ UNCHANGED <<response_cache, chat_memory, qdrant, finished, up, tempdirs>>
    /\ UNCHANGED_OTHERS

\* the earlier requests that are still being served: their handler or
\* their generator has not ended
InFlight(r) ==
    {r0 \in 1..(r - 1) :
        req[r0].pc \in {"gather", "searched", "created", "at_yield", "at_err_yield"}}

\* chat(): a miss; planner, then hybrid_retrieve up to its await of
\* asyncio.gather (rewrite_query never raises, embed_query returned)
\* (history: req[r].overlaps tells which requests were being served when
\* this one arrived)
ChatMiss(r) ==
    /\ Arrives(r)
    /\ \E question \in Questions, session_id \in Sessions :
        LET q == Strip(question) IN
        /\ q # <<>>
        /\ q \notin DOMAIN response_cache
        /\ req' = [req EXCEPT ![r] =
                     [@ EXCEPT !.pc = "gather", !.request_question = question, !.question = q,
                               !.session_id = session_id,
                               !.selected = planner(q),
                               !.overlaps = InFlight(r),
                               !.work = {"strip", "cache_lookup", "planner",
                                         "rewrite_query", "embed_query"}]]
    /\ UNCHANGED <<response_cache, chat_memory, qdrant, finished, up, tempdirs>>
    /\ UNCHANGED_OTHERS

\* chat(): a miss, and embeddings.embed_query raises out of the handler
ChatEmbedFails(r) ==
    /\ Arrives(r)
    /\ \E question \in Questions, session_id \in Sessions :
        LET q == Strip(question) IN
        /\ q # <<>>
        /\ q \notin DOMAIN response_cache
        /\ req' = [req EXCEPT ![r] =
                     [@ EXCEPT !.pc = "failed", !.request_question = question, !.question = q,
                               !.session_id = session_id,
                               !.selected = planner(q),
                               !.status = StatusServerError,
                               !.work = {"strip", "cache_lookup", "planner",
                                         "rewrite_query", "embed_query"}]]
    /\ UNCHANGED <<response_cache, chat_memory, qdrant, finished, up, tempdirs>>
    /\ UNCHANGED_OTHERS

\* the retrieve tasks asyncio.gather scheduled run, one after the other in
\* the same turn of the event loop: each searches the store as it is now
ChatSearched(r) ==
    /\ req[r].pc = "gather"
    /\ LET selected == req[r].selected
       IN  \E failing \in SUBSET (1..Len(selected)) :
             LET tasks == [i \in 1..Len(selected) |->
                             retrieve(qdrant, selected[i], i \in failing)]
             IN  req' = [req EXCEPT ![r] =
                    IF \E i \in 1..Len(selected) : tasks[i].raised
                    THEN [@ EXCEPT !.pc = "failed",
                                   !.status = StatusServerError,
                                   !.work = @ \cup {"query_points"}]
                    ELSE [@ EXCEPT !.pc = "searched",
                                   !.results = [i \in 1..Len(selected) |-> tasks[i].value],
                                   !.work = @ \cup {"query_points"}]]
    /\ UNCHANGED <<response_cache, chat_memory, qdrant, finished, up, tempdirs>>
    /\ UNCHANGED_OTHERS

\* chat() resumes after asyncio.gather, in a later turn of the event loop:
\* the results are merged and reranked, context and memory are set (the
\* session's history as it is now), the prompt is built from them and the
\* StreamingResponse is returned; PromptOf gives the prompt that generate()
\* holds from here on
ChatRetrieved(r) ==
    /\ req[r].pc = "searched"
    /\ \E bm \in BMOutcomes(Texts(Flatten(req[r].results))) :
         LET docs == MergeAndRerank(req[r].results, bm)
             context == BuildContext(docs)
             memory == MemoryFormatHistory(chat_memory, req[r].session_id)
         IN  req' = [req EXCEPT ![r] =
                [@ EXCEPT !.pc = "created", !.status = StatusOk,
                          !.results = <<>>,
                          !.context = context, !.memory = memory,
                          !.work = @ \cup {"format_history"}]]
    /\ UNCHANGED <<response_cache, chat_memory, qdrant, finished, up, tempdirs>>
    /\ UNCHANGED_OTHERS

\* the generator is running or can be resumed into its for loop
InLoop(r) == req[r].pc \in {"created", "at_yield"}

\* generate() runs to `yield chunk.content`: the model's next chunk with
\* content (the loop passes over chunks without content, which change
\* nothing); the model streams at most MaxChunks such chunks
GenToken(r) ==
    /\ InLoop(r)
    /\ Len(req[r].sent) < MaxChunks
    /\ \E content \in TokenContents :
        req' = [req EXCEPT ![r] =
                  [@ EXCEPT !.pc = "at_yield", !.context = <<>>, !.memory = <<>>,
                            !.work = @ \cup {"llm.stream"},
                            !.full_response = @ \o content,
                            !.sent = Append(@, content)]]
    /\ UNCHANGED <<response_cache, chat_memory, qdrant, finished, up, tempdirs>>
    /\ UNCHANGED_OTHERS

\* generate() runs to its end: the model's stream is exhausted, the finally
\* block runs
GenExhausted(r) ==
    /\ InLoop(r)
    /\ LET fin == FinallyCommit(response_cache, chat_memory, req[r].session_id,
                                req[r].question, req[r].full_response)
       IN  /\ req' = [req EXCEPT ![r] =
                        [@ EXCEPT !.pc = "done", !.context = <<>>, !.memory = <<>>,
                                  !.work = @ \cup {"llm.stream"},
                                  !.committed = fin.committed]]
           /\ response_cache' = fin.cache
           /\ chat_memory' = fin.memory
    /\ finished' = Append(finished, r)
    /\ UNCHANGED <<qdrant, up, tempdirs>>
    /\ UNCHANGED_OTHERS

\* llm.stream, or the iteration over it, raises: generate() runs to
\* `yield error_msg`
GenLLMError(r) ==
    /\ InLoop(r)
    /\ \E e \in LLMErrors :
        req' = [req EXCEPT ![r] =
                  [@ EXCEPT !.pc = "at_err_yield", !.context = <<>>, !.memory = <<>>,
                            !.work = @ \cup {"llm.stream"},
                            !.error = e,
                            !.sent = Append(@, ErrorMsg(e))]]
    /\ UNCHANGED <<response_cache, chat_memory, qdrant, finished, up, tempdirs>>
    /\ UNCHANGED_OTHERS

\* generate() is resumed after `yield error_msg`: the message is added to
\* full_response, the finally block runs
GenAfterError(r) ==
    /\ req[r].pc = "at_err_yield"
    /\ LET full == AppendError(req[r].full_response, ErrorMsg(req[r].error))
           fin == FinallyCommit(response_cache, chat_memory, req[r].session_id,
                                req[r].question, full)
       IN  /\ req' = [req EXCEPT ![r] =
                        [@ EXCEPT !.pc = "done", !.full_response = full,
                                  !.committed = fin.committed]]
           /\ response_cache' = fin.cache
           /\ chat_memory' = fin.memory
    /\ finished' = Append(finished, r)
    /\ UNCHANGED <<qdrant, up, tempdirs>>
    /\ UNCHANGED_OTHERS

\* the response is dropped while generate() is suspended at a yield (the
\* caller went away): aclose() raises GeneratorExit at the yield, which no
\* `except Exception` catches, and the finally block runs
GenClose(r) ==
    /\ req[r].pc \in {"at_yield", "at_err_yield"}
    /\ LET fin == FinallyCommit(response_cache, chat_memory, req[r].session_id,
                                req[r].question, req[r].full_response)
       IN  /\ req' = [req EXCEPT ![r] =
                        [@ EXCEPT !.pc = "closed", !.committed = fin.committed]]
           /\ response_cache' = fin.cache
           /\ chat_memory' = fin.memory
    /\ finished' = Append(finished, r)
    /\ UNCHANGED <<qdrant, up, tempdirs>>
    /\ UNCHANGED_OTHERS

\* the response is dropped before generate() was ever started: nothing of
\* its body runs
GenDropUnstarted(r) ==
    /\ req[r].pc = "created"
    /\ req' = [req EXCEPT ![r] = [@ EXCEPT !.pc = "dropped", !.context = <<>>, !.memory = <<>>]]
    /\ UNCHANGED <<response_cache, chat_memory, qdrant, finished, up, tempdirs>>
    /\ UNCHANGED_OTHERS

\* the generator of request r has run its finally block
Ended(r) == \E i \in 1..Len(finished) : finished[i] = r

\* DELETE /memory/{session_id} (history: req[r].cleared tells what was
\* cleared since the generator of r ended, "none", "memory" or "all")
ClearMemory ==
    /\ \E session_id \in Sessions :
        /\ chat_memory' = MemoryClear(chat_memory, session_id)
        /\ req' = [r \in DOMAIN req |->
                     IF Ended(r) /\ req[r].session_id = session_id
                        /\ req[r].cleared = "none"
                     THEN [req[r] EXCEPT !.cleared = "memory"]
                     ELSE req[r]]
    /\ UNCHANGED <<response_cache, qdrant, finished, up, tempdirs>>
    /\ UNCHANGED_OTHERS

\* DELETE /memory
ClearAllMemory ==
    /\ chat_memory' = [x \in {} |-> <<>>]
    /\ response_cache' = EmptyDict
    /\ req' = [r \in DOMAIN req |->
                 IF Ended(r) THEN [req[r] EXCEPT !.cleared = "all"] ELSE req[r]]
    /\ UNCHANGED <<qdrant, finished, up, tempdirs>>
    /\ UNCHANGED_OTHERS

UploadArrives(u) ==
    /\ up[u].pc = "idle"
    /\ \A u0 \in 1..(u - 1) : up[u0].pc # "idle"

\* the test without .lower(): a plausible slip
IsPdfNameCaseSensitive(filename) == EndsWith(filename, Literals.pdf_suffix)

\* file.filename.lower().endswith(".pdf")
IsPdfName(filename) == EndsWith(Lower(filename), Literals.pdf_suffix)

\* upload_pdf(): the filename is no PDF's, HTTP 400
UploadReject(u) ==
    /\ UploadArrives(u)
    /\ \E filename \in Filenames, collection \in UploadCollections :
        /\ ~IsPdfName(filename)
        /\ up' = [up EXCEPT ![u] =
                    [@ EXCEPT !.pc = "rejected", !.filename = filename,
                              !.collection = collection,
                              !.status = StatusBadRequest]]
    /\ UNCHANGED <<response_cache, chat_memory, qdrant, req, finished, tempdirs>>
    /\ UNCHANGED_OTHERS

\* upload_pdf(): mkdtemp, open(temp_path, "wb"), up to `await file.read()`
UploadStage(u) ==
    /\ UploadArrives(u)
    /\ \E filename \in Filenames, collection \in UploadCollections :
        /\ IsPdfName(filename)
        /\ up' = [up EXCEPT ![u] =
                    [@ EXCEPT !.pc = "reading", !.filename = filename,
                              !.collection = collection,
                              !.work = {"mkdtemp", "open", "file.read"}]]
    /\ tempdirs' = tempdirs \cup {u}
    /\ UNCHANGED <<response_cache, chat_memory, qdrant, req, finished>>
    /\ UNCHANGED_OTHERS

\* upload_pdf() resumes: the bytes are written, ingest_pdf returns, the
\* temporary directory is removed
UploadIngested(u) ==
    /\ up[u].pc = "reading"
    /\ qdrant' = IngestPdf(qdrant, UploadText, up[u].collection)
    /\ up' = [up EXCEPT ![u] =
                [@ EXCEPT !.pc = "done", !.status = StatusOk,
                          !.chunks_ingested = Len(SplitText(UploadText)),
                          !.work = @ \cup {"write", "ingest_pdf"}]]
    /\ tempdirs' = tempdirs \ {u}
    /\ UNCHANGED <<response_cache, chat_memory, req, finished>>
    /\ UNCHANGED_OTHERS

\* upload_pdf() resumes and `await file.read()` raises, or f.write raises,
\* or ingest_pdf raises: what follows in the try block is not called, HTTP
\* 500, the temporary directory is removed
UploadIngestFails(u) ==
    /\ up[u].pc = "reading"
    /\ \E called \in {{}, {"write"}, {"write", "ingest_pdf"}} :
        up' = [up EXCEPT ![u] =
                 [@ EXCEPT !.pc = "failed", !.status = StatusServerError,
                           !.work = @ \cup called]]
    /\ tempdirs' = tempdirs \ {u}
    /\ UNCHANGED <<response_cache, chat_memory, qdrant, req, finished>>
    /\ UNCHANGED_OTHERS

\* list_collections(): ensure_collections creates the well-known
\* collections that are missing, then every collection is listed with its
\* counts (0 where its inspection fails); the answer holds no state
ListCollections ==
    /\ qdrant' = EnsureCollections(qdrant)
    /\ UNCHANGED <<response_cache, chat_memory, req, finished, up, tempdirs>>
    /\ UNCHANGED_OTHERS

\* list_collections(): HTTP 500, because ensure_collections raises and
\* the store is as it was, or because qdrant.get_collections raises after
\* ensure_collections has returned and created what was missing
ListCollectionsFails ==
    /\ qdrant' \in {qdrant, EnsureCollections(qdrant)}
    /\ UNCHANGED <<response_cache, chat_memory, req, finished, up, tempdirs>>
    /\ UNCHANGED_OTHERS

NextB ==
    \/ \E r \in 1..MaxReq :
        \/ ChatRejectEmpty(r)
        \/ ChatCacheHit(r)
        \/ ChatMiss(r)
        \/ ChatEmbedFails(r)
        \/ ChatSearched(r)
        \/ ChatRetrieved(r)
        \/ GenToken(r)
        \/ GenExhausted(r)
        \/ GenLLMError(r)
        \/ GenAfterError(r)
        \/ GenClose(r)
        \/ GenDropUnstarted(r)
    \/ ClearMemory
    \/ ClearAllMemory
    \/ ListCollections
    \/ ListCollectionsFails
    \/ \E u \in 1..MaxUploads :
        \/ UploadReject(u)
        \/ UploadStage(u)
        \/ UploadIngested(u)
        \/ UploadIngestFails(u)

-----------------------------------------------------------------------------
(* app.py, the standalone UI. Streamlit runs the script from top to bottom *)
(* on every interaction of a browser session, each session's run in a     *)
(* thread of its own; st.session_state lives with the session, the        *)
(* st.cache_resource entries and the files on disk with the process. A    *)
(* run is followed statement by statement where it touches what the       *)
(* sessions share or waits; a user acts on a page whose run has ended.    *)

MaxTurns == 1
UISessions == {"s1", "s2"}

\* str * n
Repeat(str, n) == [i \in 1..(n * Len(str)) |-> str[((i - 1) % Len(str)) + 1]]

\* A file is the sequence of its bytes. The PDF format is stood for by a
\* frame around the text of the pages: what PyPDFLoader reads back from
\* the bytes of a file.
PdfFrame == [header |-> Str("%PDF-"), trailer |-> Str("%%EOF")]
PdfBytes(text) == PdfFrame.header \o text \o PdfFrame.trailer

PdfShort == PdfBytes(Str("The capital of France is Paris."))
PdfLong == PdfBytes(Repeat(Str("0123456789"), 120))
PdfCorrupt == Str("not a PDF")
PdfDefault == PdfBytes(Str("A bundled paper."))
UploadablePdfs == {PdfShort, PdfLong, PdfCorrupt}

TempUploadPath == "temp_upload.pdf"
DefaultPath == "my_paper.pdf"

NoVectorstore == [built |-> FALSE, chunks |-> <<>>]
NoUpload == [present |-> FALSE, file |-> <<>>]
NoResult == [vectorstore |-> NoVectorstore, num_chunks |-> 0, error |-> "None"]
Raised == [vectorstore |-> NoVectorstore, num_chunks |-> 0, error |-> "raised"]

\* the bytes of `bytes` from position i on are those of pat
HasAt(bytes, i, pat) ==
    /\ i >= 1
    /\ i + Len(pat) - 1 <= Len(bytes)
    /\ SubSeq(bytes, i, i + Len(pat) - 1) = pat

\* PyPDFLoader(file_path).load() on a file of these bytes: what it can
\* give, the text of the pages or an exception. A file that is not a PDF
\* (the empty file is not) raises; a file in which one upload was written
\* over the start of another either raises or gives what lies in the frame.
PdfLoad(bytes) ==
    LET framed == /\ Len(bytes) >= Len(PdfFrame.header) + Len(PdfFrame.trailer)
                  /\ HasAt(bytes, 1, PdfFrame.header)
                  /\ HasAt(bytes, Len(bytes) - Len(PdfFrame.trailer) + 1, PdfFrame.trailer)
        inner == SubSeq(bytes, Len(PdfFrame.header) + 1, Len(bytes) - Len(PdfFrame.trailer))
        unreadable == [readable |-> FALSE, text |-> <<>>]
    IN  IF ~framed THEN {unreadable}
        ELSE IF \E i \in 1..Len(inner) : HasAt(inner, i, PdfFrame.trailer)
             THEN {unreadable, [readable |-> TRUE, text |-> inner]}
             ELSE {[readable |-> TRUE, text |-> inner]}

\* the body of load_and_process_pdf: (vectorstore, len(docs), None), or
\* (None, 0, str(e)) when the loader or FAISS.from_documents raises (it does
\* on an empty list of documents); one result for each thing the loader can
\* give
LoadAndProcess(disk, file_path) ==
    IF file_path \notin DOMAIN disk THEN {Raised}
    ELSE {IF ~data.readable \/ SplitText(data.text) = <<>>
          THEN Raised
          ELSE [vectorstore |-> [built |-> TRUE, chunks |-> SplitText(data.text)],
                num_chunks |-> Len(SplitText(data.text)), error |-> "None"] :
          data \in PdfLoad(disk[file_path])}

\* f.write(data) at position 0 and the close that flushes it: the bytes
\* replace those at the start of the file, what another writer has put
\* behind them since the open stays
WriteAtStart(disk, path, data) ==
    DictSet(disk, path, data \o SubSeq(disk[path], Len(data) + 1, Len(disk[path])))

SessionFresh ==
    [started |-> FALSE, uploaded |-> NoUpload, vectorstore |-> NoVectorstore,
     num_chunks |-> 0, chat_history |-> <<>>, shown |-> "none", asked |-> 0,
     pc |-> "idle", clear_button |-> FALSE, prompt |-> <<>>,
     file_path |-> "", result |-> NoResult]

\* what the user types in the chat input, what the model answers, and the
\* two warnings of ask_question, each behind U+26A0 U+FE0F
UITexts ==
    [question |-> Str("What is the capital of France?"),
     answer |-> Str("Paris."),
     error |-> <<9888, 65039>> \o Str(" Error: ") \o Str("quota"),
     no_key |-> <<9888, 65039>>
                \o Str(" API key not configured. Please add GEMINI_API_KEY to your .env file.")]

\* the answers ask_question can give: the fixed message without a key, else
\* what the model says or the text of the error it raised
Answers(haveKey) ==
    IF haveKey THEN {UITexts.answer, UITexts.error} ELSE {UITexts.no_key}

InitU ==
    /\ ui_memo = [x \in {} |-> 0]
    /\ ui_computing = {}
    /\ ui_disk \in {[x \in {} |-> 0], [x \in {DefaultPath} |-> PdfDefault]}
    /\ ui_key \in BOOLEAN
    /\ ui_sess = [s \in UISessions |-> SessionFresh]

\* the UI not running, in the runs of the other components
IdleU ==
    /\ ui_memo = [x \in {} |-> 0]
    /\ ui_computing = {}
    /\ ui_disk = [x \in {} |-> 0]
    /\ ui_key = FALSE
    /\ ui_sess = <<>>

\* the session after a step of its script
Step(s, sess) ==
    /\ ui_sess' = [ui_sess EXCEPT ![s] = sess]
    /\ UNCHANGED <<ui_key, varsP, varsR, varsB>>

\* a run of the script starts for `sess`, its chat input holding `prompt`
\* (empty when nothing was typed): the session state is initialised, the
\* Clear Chat button is drawn if the transcript holds a turn, and the run
\* goes on to the uploaded file, to the default document, or to the chat
ScriptStart(sess, prompt) ==
    [sess EXCEPT
        !.started = TRUE,
        !.clear_button = (sess.chat_history # <<>>),
        !.prompt = prompt,
        !.shown = "none",
        !.result = NoResult,
        !.file_path = IF sess.uploaded.present THEN TempUploadPath
                      ELSE IF DefaultPath \in DOMAIN ui_disk /\ ~sess.vectorstore.built
                           THEN DefaultPath
                           ELSE "",
        !.pc = IF sess.uploaded.present THEN "open"
               ELSE IF DefaultPath \in DOMAIN ui_disk /\ ~sess.vectorstore.built
                    THEN "call"
                    ELSE "chat"]

\* a browser session opens the page, or changes a slider: a run with
\* nothing typed
UIRerun(s) ==
    /\ ui_sess[s].pc = "idle"
    /\ Step(s, ScriptStart(ui_sess[s], <<>>))
    /\ UNCHANGED <<ui_memo, ui_computing, ui_disk>>

\* the user picks a PDF in the file uploader
UIUpload(s) ==
    /\ ui_sess[s].pc = "idle"
    /\ ui_sess[s].started
    /\ \E file \in UploadablePdfs :
        Step(s, ScriptStart([ui_sess[s] EXCEPT
                                !.uploaded = [present |-> TRUE, file |-> file]],
                            <<>>))
    /\ UNCHANGED <<ui_memo, ui_computing, ui_disk>>

\* the user removes the file from the uploader
UIRemoveUpload(s) ==
    /\ ui_sess[s].pc = "idle"
    /\ ui_sess[s].started
    /\ ui_sess[s].uploaded.present
    /\ Step(s, ScriptStart([ui_sess[s] EXCEPT !.uploaded = NoUpload], <<>>))
    /\ UNCHANGED <<ui_memo, ui_computing, ui_disk>>

\* the user types a question in the chat input (`asked` counts the
\* questions of the session, to bound the run at MaxTurns questions in
\* all)
UIAsk(s) ==
    /\ ui_sess[s].pc = "idle"
    /\ ui_sess[s].started
    /\ Cardinality({x \in UISessions \X (1..MaxTurns) :
                        x[2] <= ui_sess[x[1]].asked}) < MaxTurns
    /\ Step(s, ScriptStart([ui_sess[s] EXCEPT !.asked = @ + 1], UITexts.question))
    /\ UNCHANGED <<ui_memo, ui_computing, ui_disk>>

\* the user presses Clear Chat, which the page offers when the last run
\* drew it: the run it starts empties the transcript and ends at st.rerun()
UIClearChat(s) ==
    /\ ui_sess[s].pc = "idle"
    /\ ui_sess[s].started
    /\ ui_sess[s].clear_button
    /\ ui_sess[s].chat_history # <<>>
    /\ Step(s, [ui_sess[s] EXCEPT !.chat_history = <<>>, !.pc = "rerun"])
    /\ UNCHANGED <<ui_memo, ui_computing, ui_disk>>

\* the run that st.rerun() asked for starts
UIRerunAfterClear(s) ==
    /\ ui_sess[s].pc = "rerun"
    /\ Step(s, ScriptStart(ui_sess[s], <<>>))
    /\ UNCHANGED <<ui_memo, ui_computing, ui_disk>>

\* open("temp_upload.pdf", "wb"): the file is created or emptied, the
\* position is 0
UIOpenTemp(s) ==
    /\ ui_sess[s].pc = "open"
    /\ ui_disk' = DictSet(ui_disk, TempUploadPath, <<>>)
    /\ Step(s, [ui_sess[s] EXCEPT !.pc = "write"])
    /\ UNCHANGED <<ui_memo, ui_computing>>

\* f.write(uploaded_file.getbuffer()) and the end of the with block
UIWriteTemp(s) ==
    /\ ui_sess[s].pc = "write"
    /\ ui_disk' = WriteAtStart(ui_disk, TempUploadPath, ui_sess[s].uploaded.file)
    /\ Step(s, [ui_sess[s] EXCEPT !.pc = "call"])
    /\ UNCHANGED <<ui_memo, ui_computing>>

\* the call of load_and_process_pdf(file_path) under @st.cache_resource:
\* the entry is keyed by the argument, the path. A call that finds the
\* entry returns it; one that does not runs the body, unless another call
\* with this path is running it, whose entry it then waits for
UICallLoad(s) ==
    /\ ui_sess[s].pc = "call"
    /\ IF ui_sess[s].file_path \in DOMAIN ui_memo
       THEN /\ Step(s, [ui_sess[s] EXCEPT !.result = ui_memo[ui_sess[s].file_path],
                                          !.pc = "set"])
            /\ UNCHANGED ui_computing
       ELSE /\ ui_sess[s].file_path \notin ui_computing
            /\ ui_computing' = ui_computing \cup {ui_sess[s].file_path}
            /\ Step(s, [ui_sess[s] EXCEPT !.pc = "body"])
    /\ UNCHANGED <<ui_memo, ui_disk>>

\* the body of load_and_process_pdf reads the file and builds the index
UILoadBody(s) ==
    /\ ui_sess[s].pc = "body"
    /\ \E result \in LoadAndProcess(ui_disk, ui_sess[s].file_path) :
        Step(s, [ui_sess[s] EXCEPT !.result = result, !.pc = "store"])
    /\ UNCHANGED <<ui_memo, ui_computing, ui_disk>>

\* the result of the body becomes the entry of the path
UIStoreEntry(s) ==
    /\ ui_sess[s].pc = "store"
    /\ ui_memo' = DictSet(ui_memo, ui_sess[s].file_path, ui_sess[s].result)
    /\ ui_computing' = ui_computing \ {ui_sess[s].file_path}
    /\ Step(s, [ui_sess[s] EXCEPT !.pc = "set"])
    /\ UNCHANGED ui_disk

\* what the script does with the result: for an upload the session takes
\* the index and the page says "processed", or it says "failed"; for the
\* default document the session takes the index if there is one
UITakeResult(s) ==
    LET sess == ui_sess[s]
        ok == sess.result.vectorstore.built
    IN  /\ sess.pc = "set"
        /\ Step(s, [sess EXCEPT
                !.vectorstore = IF ok THEN sess.result.vectorstore ELSE @,
                !.num_chunks = IF ok THEN sess.result.num_chunks ELSE @,
                !.shown = IF sess.file_path = TempUploadPath
                          THEN (IF ok THEN "processed" ELSE "failed")
                          ELSE IF ok THEN "default_loaded" ELSE "none",
                !.result = NoResult,
                !.file_path = "",
                !.pc = "chat"])
        /\ UNCHANGED <<ui_memo, ui_computing, ui_disk>>

\* the chat part of the script: without a prompt, or without an index
\* (the page then asks for a PDF), the run ends; else the user turn is
\* appended and ask_question is called
UIChat(s) ==
    LET sess == ui_sess[s]
    IN  /\ sess.pc = "chat"
        /\ IF sess.prompt = <<>> \/ ~sess.vectorstore.built
           THEN Step(s, [sess EXCEPT !.prompt = <<>>, !.pc = "idle"])
           ELSE Step(s, [sess EXCEPT
                    !.chat_history = Append(@, [role |-> "user", content |-> sess.prompt]),
                    !.pc = "asking"])
        /\ UNCHANGED <<ui_memo, ui_computing, ui_disk>>

\* ask_question returns and the assistant turn is appended; the run ends
UIAnswer(s) ==
    /\ ui_sess[s].pc = "asking"
    /\ \E answer \in Answers(ui_key) :
        Step(s, [ui_sess[s] EXCEPT
                    !.chat_history = Append(@, [role |-> "assistant", content |-> answer]),
                    !.prompt = <<>>,
                    !.pc = "idle"])
    /\ UNCHANGED <<ui_memo, ui_computing, ui_disk>>

NextU ==
    \E s \in UISessions :
        \/ UIRerun(s)
        \/ UIUpload(s)
        \/ UIRemoveUpload(s)
        \/ UIAsk(s)
        \/ UIClearChat(s)
        \/ UIRerunAfterClear(s)
        \/ UIOpenTemp(s)
        \/ UIWriteTemp(s)
        \/ UICallLoad(s)
        \/ UILoadBody(s)
        \/ UIStoreEntry(s)
        \/ UITakeResult(s)
        \/ UIChat(s)
        \/ UIAnswer(s)

-----------------------------------------------------------------------------
(* The planner run on bounded inputs: questions are concatenations of at   *)
(* most MaxFragments fragments, so that keywords occur in any case, split  *)
(* across fragments, several at once, and next to letters outside ASCII    *)
(* (U+00C0, capital sigma, U+0130 whose lower-case form is "i" followed by *)
(* U+0307, and U+0181).                                                    *)

MaxFragments == 3

Fragments ==
    {Str("api"), Str("API"), Str("Ap"), Str("i"), Str("function"), Str("Func"),
     Str("tion"), Str("code"), Str("CoDe"), Str("cod"), Str("how"), Str("HOW"),
     Str("ho"), Str("w"), Str("faq"), Str("FAQ"), Str("help"), Str("Help"),
     Str("hel"), Str(" "), Str("What is X?"),
     <<192>>, <<931>>, <<304>>, <<385>>}

RECURSIVE Concats(_)
\* every concatenation of at most n fragments
Concats(n) ==
    IF n = 0 THEN {<<>>}
    ELSE LET shorter == Concats(n - 1)
         IN  shorter \cup {s \o f : s \in shorter, f \in Fragments}

PlannerInputs == Concats(MaxFragments)

InitP ==
    /\ pq \in PlannerInputs
    /\ pres = <<>>
    /\ ppc = "called"

\* the planner idle, in the runs of the other components
IdleP ==
    /\ pq = <<>>
    /\ pres = <<>>
    /\ ppc = "idle"

PlannerReturn ==
    /\ ppc = "called"
    /\ pres' = planner(pq)
    /\ ppc' = "returned"
    /\ UNCHANGED <<pq, varsR, varsB, varsU>>

NextP == PlannerReturn

-----------------------------------------------------------------------------
(* Specifications *)

vars == <<pq, pres, ppc, hr, response_cache, chat_memory, qdrant, req, finished, up,
         tempdirs, ui_memo, ui_computing, ui_disk, ui_key, ui_sess>>

PlannerInit == InitP /\ InitR /\ IdleB /\ IdleU

PlannerSpec == PlannerInit /\ [][NextP]_vars

RetrInit == IdleP /\ InitR /\ IdleB /\ IdleU

RetrSpec == RetrInit /\ [][NextR]_vars

Init == IdleP /\ InitR /\ InitB /\ IdleU

Next == NextB

Spec == Init /\ [][Next]_vars

UIInit == IdleP /\ InitR /\ IdleB /\ InitU

UISpec == UIInit /\ [][NextU]_vars

-----------------------------------------------------------------------------
(* Claims about the planner (PlannerSpec) *)

\* the forms of the ASCII character c: itself, its capital when it is a
\* letter (a to z are U+0061 to U+007A, the capitals 32 below), and the
\* Kelvin sign U+212A for k
CaseForms(c) ==
    {c} \cup (IF 97 <= c /\ c <= 122 THEN {c - 32} ELSE {})
        \cup (IF c = 107 THEN {8490} ELSE {})

\* the keyword kw stands in s at position i, each letter in either case; a
\* last letter i may also be U+0130, whose lower-case form begins with i
KeywordAt(s, i, kw) ==
    /\ i >= 1
    /\ i + Len(kw) - 1 <= Len(s)
    /\ \A k \in 1..Len(kw) :
        s[i + k - 1] \in CaseForms(kw[k])
                        \cup (IF k = Len(kw) /\ kw[k] = 105 THEN {304} ELSE {})

Mentions(s, kw) == \E i \in 1..Len(s) : KeywordAt(s, i, kw)

MentionsAny(s, kws) == \E kw \in kws : Mentions(s, kw)

\* C7: planner returns ["code_docs", "research_papers"] for every question
\* that holds "api", "function" or "code" in any case, whatever else it
\* holds; otherwise ["faq_data", "knowledge_base"] for every question that
\* holds "how", "faq" or "help"; and ["research_papers", "knowledge_base"]
\* for every other question.
C7_PlannerFirstMatchWins ==
    ppc = "returned" =>
        pres = IF MentionsAny(pq, {Keywords.api, Keywords.function, Keywords.code})
               THEN <<"code_docs", "research_papers">>
               ELSE IF MentionsAny(pq, {Keywords.how, Keywords.faq, Keywords.help})
               THEN <<"faq_data", "knowledge_base">>
               ELSE <<"research_papers", "knowledge_base">>

\* a question with a rule-1 and a rule-2 keyword, not all in lower case,
\* was routed by rule 1
C7_Witness ==
    /\ ppc = "returned"
    /\ Mentions(pq, Keywords.api)
    /\ Mentions(pq, Keywords.how)
    /\ ~Contains(pq, Keywords.api)
    /\ pres = <<"code_docs", "research_papers">>

-----------------------------------------------------------------------------
(* Claims about the hybrid retriever (RetrSpec) *)

Min(a, b) == IF a < b THEN a ELSE b

\* the indices, among the first dynamic_k points of the collection, of the
\* points that carry a text
TextIdx(store, c) ==
    {j \in 1..Min(dynamic_k(c), Len(store[c])) : store[c][j].hasText}

\* the n-th smallest element of a set of numbers
Nth(S, n) == CHOOSE j \in S : Cardinality({m \in S : m < j}) = n - 1

\* results[i] is what the store holds for the i-th selected collection
KeptWhole(i) ==
    LET c == hr.selected[i]
        idx == TextIdx(hr.store, c)
    IN  /\ Len(hr.results[i]) = Cardinality(idx)
        /\ \A n \in 1..Cardinality(idx) :
            LET pt == hr.store[c][Nth(idx, n)]
            IN  hr.results[i][n] = <<pt.text, FloatProduct(pt.score, Confidence(c))>>

RECURSIVE LenSum(_, _)
\* the total length of the first n lists of results
LenSum(results, n) == IF n = 0 THEN 0 ELSE LenSum(results, n - 1) + Len(results[n])

\* C9: whichever selected collections fail, hybrid_retrieve does not raise
\* from the search stage; a failing collection contributes the empty list,
\* every other collection's results are kept whole, the merged candidates
\* are exactly the results of the non-failing collections, and the result
\* is empty when every collection fails.
C9_FailingCollectionContributesNothing ==
    /\ hr.pc = "raised" => hr.results = <<>>
    /\ \A i \in 1..Len(hr.results) :
        IF i \in hr.failed THEN hr.results[i] = <<>> ELSE KeptWhole(i)
    /\ hr.pc = "returned" =>
        /\ Len(hr.results) = Len(hr.selected)
        /\ Len(hr.merged) =
             LenSum(hr.results, Len(hr.results))
        /\ \A i \in 1..Len(hr.results) :
            i \notin hr.failed =>
                \A n \in 1..Len(hr.results[i]) :
                    hr.merged[LenSum(hr.results, i - 1) + n] = hr.results[i][n]
        /\ {hr.out[n] : n \in 1..Len(hr.out)}
             \subseteq {hr.merged[n][1] : n \in 1..Len(hr.merged)}
        /\ Len(hr.merged) <= TopFinal => Len(hr.out) = Len(hr.merged)
        /\ hr.failed = 1..Len(hr.selected) => hr.out = <<>>

\* two collections were selected, one failed, and the documents of the
\* other were returned
C9_Witness ==
    /\ hr.pc = "returned"
    /\ Len(hr.selected) = 2
    /\ Cardinality(hr.failed) = 1
    /\ hr.out # <<>>

-----------------------------------------------------------------------------
(* Claims about the backend service (Spec) *)

Reqs == DOMAIN req
Ups == DOMAIN up

\* the text the caller of request r has received
Delivered(r) == Join(<<>>, req[r].sent)

Running == {"created", "at_yield", "at_err_yield"}
Terminated == {"done", "closed"}
RetrievalAndGeneration ==
    {"planner", "rewrite_query", "embed_query", "query_points", "format_history",
     "llm.stream"}

MaxOf(S) == CHOOSE x \in S : \A y \in S : y <= x
MinOf(S) == CHOOSE x \in S : \A y \in S : x <= y

\* s without its leading and trailing whitespace, by positions
Trimmed(s) ==
    LET solid == {i \in 1..Len(s) : ~IsSpace(s[i])}
    IN  IF solid = {} THEN <<>> ELSE SubSeq(s, MinOf(solid), MaxOf(solid))

\* the places in `finished` of the requests that stored an answer under the
\* key k and whose entry no DELETE /memory has removed since
Writers(k) ==
    {i \in 1..Len(finished) :
        /\ req[finished[i]].question = k
        /\ req[finished[i]].full_response # <<>>
        /\ req[finished[i]].cleared # "all"}

\* r was the last to store an answer under its key, and the entry stands
IsLastWriter(r) ==
    /\ Writers(req[r].question) # {}
    /\ finished[MaxOf(Writers(req[r].question))] = r

\* C1: a POST /chat that follows a request with the identical question,
\* whose stream was consumed to its end and delivered a non-empty answer
\* (nothing having overwritten or cleared the entry in between), returns
\* exactly the text the first caller received, tagged cached, without
\* planning, retrieval or generation.
C1_SecondCallIsCacheHit ==
    [][\A r1, r2 \in Reqs :
        (/\ req[r2].pc = "idle"
         /\ req'[r2].pc # "idle"
         /\ req[r1].pc = "done"
         /\ req[r1].sent # <<>>
         /\ IsLastWriter(r1)
         /\ req'[r2].request_question = req[r1].request_question)
        => /\ req'[r2].pc = "hit"
           /\ req'[r2].status = StatusOk
           /\ req'[r2].cached
           /\ req'[r2].answer = Delivered(r1)
           /\ req'[r2].work \cap RetrievalAndGeneration = {}]_vars

\* the second of two requests with the identical question was answered from
\* the cache with the text the first one streamed
C1_Witness ==
    \E r1, r2 \in Reqs :
        /\ r1 # r2
        /\ req[r1].pc = "done"
        /\ req[r1].sent # <<>>
        /\ req[r2].pc = "hit"
        /\ req[r2].request_question = req[r1].request_question
        /\ req[r2].answer = Delivered(r1)

\* C2 (as claimed): a cache hit is produced only by a completed answer to
\* the character-for-character identical request question.
C2_Original ==
    \A r2 \in Reqs :
        req[r2].pc = "hit" =>
            \E r1 \in Reqs :
                /\ r1 # r2
                /\ req[r1].pc \in Terminated
                /\ req[r1].full_response = req[r2].answer
                /\ req[r1].request_question = req[r2].request_question

\* C2 (amended): the cache is keyed by exact, case-sensitive equality of the
\* question with its leading and trailing whitespace removed: a cache hit is
\* produced only by an answer to a request whose trimmed question is
\* character for character the trimmed question of the request.
C2_KeyedByTrimmedQuestion ==
    \A r2 \in Reqs :
        req[r2].pc = "hit" =>
            \E r1 \in Reqs :
                /\ r1 # r2
                /\ req[r1].pc \in Terminated
                /\ req[r1].full_response = req[r2].answer
                /\ Trimmed(req[r1].request_question) = Trimmed(req[r2].request_question)

\* an answer is cached for one question, and a later request whose question
\* differs from it only in letter case took the miss path
C2_Witness ==
    \E r1, r2 \in Reqs :
        /\ r1 < r2
        /\ req[r1].pc \in Terminated
        /\ req[r1].question \in DOMAIN response_cache
        /\ req[r2].pc = "created"
        /\ req[r2].question # req[r1].question
        /\ Lower(req[r2].question) = Lower(req[r1].question)
        /\ req[r2].question \notin DOMAIN response_cache

\* C3 (as claimed): a cache entry and a memory turn exist only for a
\* question whose answer stream ran to completion.
C3_Original ==
    /\ \A k \in DOMAIN response_cache :
        \E r \in Reqs :
            /\ req[r].pc = "done"
            /\ req[r].question = k
            /\ req[r].full_response = response_cache[k]
    /\ \A sid \in DOMAIN chat_memory :
        \A i \in 1..Len(chat_memory[sid]) :
            \E r \in Reqs :
                /\ req[r].pc = "done"
                /\ req[r].session_id = sid
                /\ <<req[r].question, req[r].full_response>> = chat_memory[sid][i]

\* the turns of a session, none when it has no transcript
Transcript(memory, sid) == IF sid \in DOMAIN memory THEN memory[sid] ELSE <<>>

\* this step is the one commit of request r: its generator ends, having
\* produced output, and the answer is stored in the cache and appended to
\* the session's transcript
CommitOf(r) ==
    /\ req[r].pc \in Running
    /\ req'[r].pc \in Terminated
    /\ req'[r].sent # <<>>
    /\ req'[r].full_response # <<>>
    /\ DOMAIN response_cache' = DOMAIN response_cache \cup {req[r].question}
    /\ \A k \in DOMAIN response_cache' :
        response_cache'[k] = IF k = req[r].question THEN req'[r].full_response
                             ELSE response_cache[k]
    /\ DOMAIN chat_memory' = DOMAIN chat_memory \cup {req[r].session_id}
    /\ \A sid \in DOMAIN chat_memory' :
        chat_memory'[sid] =
            IF sid = req[r].session_id
            THEN Append(Transcript(chat_memory, sid),
                        <<req[r].question, req'[r].full_response>>)
            ELSE chat_memory[sid]

\* this step is a DELETE /memory or a DELETE /memory/{session_id}
ClearStep ==
    \/ response_cache' = EmptyDict /\ DOMAIN chat_memory' = {}
    \/ /\ response_cache' = response_cache
       /\ \E sid \in DOMAIN chat_memory :
            /\ DOMAIN chat_memory' = DOMAIN chat_memory \ {sid}
            /\ \A s0 \in DOMAIN chat_memory' : chat_memory'[s0] = chat_memory[s0]

\* C3 (amended): on a cache-miss POST /chat the memory append and the cache
\* store happen together, at most once, and only when the generator ends:
\* after the stream is exhausted, or when the stream is closed after at
\* least one item was sent. A cache entry and a memory turn exist only for
\* a question one of whose streams has ended, having produced output.
C3_CommitOnlyWhenGeneratorEnds ==
    /\ [](/\ \A k \in DOMAIN response_cache :
              \E r \in Reqs :
                  /\ req[r].pc \in Terminated
                  /\ req[r].sent # <<>>
                  /\ req[r].question = k
                  /\ req[r].full_response = response_cache[k]
          /\ \A sid \in DOMAIN chat_memory :
              \A i \in 1..Len(chat_memory[sid]) :
                  \E r \in Reqs :
                      /\ req[r].pc \in Terminated
                      /\ req[r].sent # <<>>
                      /\ req[r].session_id = sid
                      /\ <<req[r].question, req[r].full_response>>
                            = chat_memory[sid][i])
    /\ [][/\ (response_cache' # response_cache \/ chat_memory' # chat_memory)
              => (ClearStep \/ \E r \in Reqs : CommitOf(r))
          /\ \A r \in Reqs :
              req[r].pc \in Terminated => req'[r].pc = req[r].pc]_vars

\* a stream was closed before its end and its partial answer is in the
\* cache and in the session's transcript
C3_Witness ==
    \E r \in Reqs :
        /\ req[r].pc = "closed"
        /\ req[r].error = <<>>
        /\ req[r].question \in DOMAIN response_cache
        /\ response_cache[req[r].question] = req[r].full_response
        /\ req[r].session_id \in DOMAIN chat_memory

\* the stream of request r carried no content token: nothing, or the error
\* annotation alone
NoContentToken(rec) ==
    \A i \in 1..Len(rec.sent) : rec.error # <<>> /\ rec.sent[i] = ErrorMsg(rec.error)

\* C4 (as claimed): when the model produces no content token, whether the
\* generation ends normally or fails, nothing is appended to the memory and
\* nothing is stored in the cache.
C4_Original ==
    [][\A r \in Reqs :
        (/\ req[r].pc \in Running
         /\ req'[r].pc \in Terminated
         /\ NoContentToken(req'[r]))
        => (response_cache' = response_cache /\ chat_memory' = chat_memory)]_vars

\* C4 (amended): when the model produces no content token, nothing is
\* appended to the memory and nothing is stored in the cache if the
\* generation ends normally, if the stream is dropped before it started, and
\* if the generation fails and the stream is closed at the error
\* annotation; if the generation fails and the stream is read to its end,
\* the error annotation alone is committed, as the answer stored in the
\* cache and as the turn appended to the session's memory.
C4_NoOutputNoCommit ==
    [][\A r \in Reqs :
        (/\ req[r].pc \in Running
         /\ req'[r].pc \in Terminated \cup {"dropped"}
         /\ NoContentToken(req'[r]))
        => IF req'[r].pc = "done" /\ req'[r].error # <<>>
           THEN /\ req'[r].sent = <<ErrorMsg(req'[r].error)>>
                /\ req'[r].full_response = ErrorMsg(req'[r].error)
                /\ CommitOf(r)
           ELSE /\ req'[r].full_response = <<>>
                /\ response_cache' = response_cache
                /\ chat_memory' = chat_memory]_vars

\* one stream ended normally without a token and committed nothing; another
\* failed before any token, was read to its end, and its error annotation
\* is the cached answer and the session's only turn
C4_Witness ==
    \E r1, r2 \in Reqs :
        /\ req[r1].pc = "done"
        /\ req[r1].error = <<>>
        /\ req[r1].sent = <<>>
        /\ "llm.stream" \in req[r1].work
        /\ ~req[r1].committed
        /\ req[r1].session_id \notin DOMAIN chat_memory
        /\ req[r2].pc = "done"
        /\ req[r2].error # <<>>
        /\ req[r2].sent = <<ErrorMsg(req[r2].error)>>
        /\ req[r2].question \in DOMAIN response_cache
        /\ response_cache[req[r2].question] = ErrorMsg(req[r2].error)
        /\ Transcript(chat_memory, req[r2].session_id)
             = <<<<req[r2].question, ErrorMsg(req[r2].error)>>>>

\* C5 (as claimed): when the model fails after tokens were streamed, once
\* the generator has ended the caller has received the tokens followed by
\* exactly one error annotation, as the last item, and the value committed
\* to the memory and the cache is exactly the text the caller received.
C5_Claim ==
    \A r \in Reqs :
        (/\ req[r].error # <<>>
         /\ req[r].pc \in Terminated
         /\ req[r].sent[1] # ErrorMsg(req[r].error)) =>
            /\ req[r].sent[Len(req[r].sent)] = ErrorMsg(req[r].error)
            /\ Cardinality({i \in 1..Len(req[r].sent) :
                                req[r].sent[i] = ErrorMsg(req[r].error)}) = 1
            /\ req[r].committed
            /\ req[r].full_response = Delivered(r)

\* the requests of a session whose generator ended and whose session was
\* not cleared since, in the order in which they ended
RECURSIVE EndedIn(_, _)
EndedIn(sid, log) ==
    IF log = <<>> THEN <<>>
    ELSE (IF req[Head(log)].session_id = sid /\ req[Head(log)].cleared = "none"
          THEN <<Head(log)>> ELSE <<>>) \o EndedIn(sid, Tail(log))

RECURSIVE WithOutput(_)
\* those of the requests rs whose accumulated answer is not empty
WithOutput(rs) ==
    IF rs = <<>> THEN <<>>
    ELSE (IF req[Head(rs)].full_response # <<>> THEN <<Head(rs)>> ELSE <<>>)
         \o WithOutput(Tail(rs))

TurnsOf(rs) == [i \in 1..Len(rs) |-> <<req[rs[i]].question, req[rs[i]].full_response>>]

\* C6 (as claimed): of two overlapping cache-miss requests of one session
\* whose streams have ended (the memory not cleared since), each has
\* appended exactly one turn, none is lost, and the turns stand in the order
\* in which the streams ended.
C6_Original ==
    \A r1, r2 \in Reqs :
        (/\ r1 \in req[r2].overlaps
         /\ req[r1].session_id = req[r2].session_id
         /\ Ended(r1) /\ Ended(r2)
         /\ req[r1].cleared = "none" /\ req[r2].cleared = "none")
        => Transcript(chat_memory, req[r1].session_id)
             = TurnsOf(EndedIn(req[r1].session_id, finished))

\* C6 (amended): each cache-miss request of a session, overlapping another
\* or not, whose generator has ended with a non-empty accumulated answer
\* (full_response: a content token, or the error annotation once the stream
\* was read past it) has appended exactly one turn; one whose accumulated
\* answer is empty (no token and a normal end, or no token and the stream
\* closed at the error annotation, which the caller did receive) has
\* appended none; no turn is lost unless the session's memory is cleared;
\* and the turns stand in the order in which the streams ended, not the
\* order in which the requests started.
C6_TurnsInFinishOrder ==
    \A sid \in Sessions :
        Transcript(chat_memory, sid) = TurnsOf(WithOutput(EndedIn(sid, finished)))

\* two requests of one session overlapped, the later one ended first, and
\* the transcript holds its turn first
C6_Witness ==
    \E r1, r2 \in Reqs :
        /\ r1 < r2
        /\ r1 \in req[r2].overlaps
        /\ req[r1].session_id = req[r2].session_id
        /\ finished = <<r2, r1>>
        /\ req[r1].full_response # req[r2].full_response
        /\ Transcript(chat_memory, req[r1].session_id)
             = <<<<req[r2].question, req[r2].full_response>>,
                 <<req[r1].question, req[r1].full_response>>>>

\* the name ends in ".pdf", in any case
EndsInPdf(name) == Len(name) >= 4 /\ KeywordAt(name, Len(name) - 3, Literals.pdf_suffix)

\* every character of s is whitespace
Blank(s) == \A i \in 1..Len(s) : IsSpace(s[i])

\* C8: an upload whose filename does not end in ".pdf" (in any case) is
\* answered 400 having made no temporary directory, read no byte and
\* ingested nothing; a chat whose question is empty after trimming is
\* answered 400 with no cache lookup, planning, retrieval or generation;
\* both leave the cache, the memory, the store and the temporary
\* directories as they were, and nothing else is answered 400.
C8_InvalidInputRejectedFirst ==
    /\ [](/\ \A u \in Ups :
              up[u].pc # "idle" =>
                  IF EndsInPdf(up[u].filename)
                  THEN up[u].status # StatusBadRequest
                  ELSE /\ up[u].pc = "rejected"
                       /\ up[u].status = StatusBadRequest
                       /\ up[u].work = {}
                       /\ up[u].chunks_ingested = 0
                       /\ u \notin tempdirs
          /\ \A r \in Reqs :
              req[r].pc # "idle" =>
                  IF Blank(req[r].request_question)
                  THEN /\ req[r].pc = "rejected"
                       /\ req[r].status = StatusBadRequest
                       /\ req[r].work \cap (RetrievalAndGeneration \cup {"cache_lookup"}) = {}
                       /\ ~req[r].cached
                  ELSE req[r].status # StatusBadRequest)
    /\ [][/\ \A u \in Ups :
              (up[u].pc = "idle" /\ up'[u].pc = "rejected")
              => UNCHANGED <<response_cache, chat_memory, qdrant, tempdirs, req, finished>>
          /\ \A r \in Reqs :
              (req[r].pc = "idle" /\ req'[r].pc = "rejected")
              => UNCHANGED <<response_cache, chat_memory, qdrant, tempdirs, up, finished>>]_vars

\* an upload of "notes.txt" and a chat with a blank question were both
\* rejected, with the cache holding an answer
C8_Witness ==
    /\ \E u \in Ups : up[u].pc = "rejected" /\ up[u].filename = Str("notes.txt")
    /\ \E r \in Reqs : req[r].pc = "rejected" /\ req[r].request_question # <<>>
    /\ DOMAIN response_cache # {}

\* this step answers request r from the cache
HitStep(r) == req[r].pc = "idle" /\ req'[r].pc = "hit"

\* C11: a cache hit on POST /chat changes no state: whatever the request's
\* session_id, it returns the answer stored for the trimmed question,
\* appends no turn to any transcript and leaves every session's memory and
\* every cache entry as they were; and every turn of a session's
\* transcript is the question and the text of a request of that session
\* that took the cache-miss streaming path.
C11_CacheHitChangesNoState ==
    /\ [](\A sid \in DOMAIN chat_memory :
            \A i \in 1..Len(chat_memory[sid]) :
                \E r \in Reqs :
                    /\ req[r].session_id = sid
                    /\ ~req[r].cached
                    /\ req[r].pc \in Terminated
                    /\ chat_memory[sid][i] = <<req[r].question, req[r].full_response>>)
    /\ [][\A r \in Reqs :
            HitStep(r) =>
                /\ req'[r].cached
                /\ req'[r].answer = response_cache[Trimmed(req'[r].request_question)]
                /\ req'[r].sent = <<>>
                /\ req'[r].full_response = <<>>
                /\ chat_memory' = chat_memory
                /\ response_cache' = response_cache
                /\ \A r0 \in Reqs \ {r} : req'[r0] = req[r0]
                /\ UNCHANGED <<qdrant, finished, up, tempdirs>>]_vars

\* a request of one session was answered from the entry a request of
\* another session stored, and its own session has no transcript
C11_Witness ==
    \E r1, r2 \in Reqs :
        /\ req[r1].pc \in Terminated
        /\ req[r1].full_response # <<>>
        /\ req[r2].pc = "hit"
        /\ req[r2].session_id # req[r1].session_id
        /\ req[r2].answer = req[r1].full_response
        /\ req[r2].session_id \notin DOMAIN chat_memory
        /\ Len(Transcript(chat_memory, req[r1].session_id)) = 1

-----------------------------------------------------------------------------
(* Claims about the standalone UI (UISpec) *)

\* C10 (as claimed): whenever a session's uploader holds a PDF and its
\* processing reported success, the session's vector index and chunk count
\* are the ones built from the content of that file; a different content
\* staged under the same path never yields the result memoized for an
\* earlier upload.
C10_Claim ==
    \A s \in DOMAIN ui_sess :
        (ui_sess[s].uploaded.present /\ ui_sess[s].shown = "processed") =>
            \E built \in LoadAndProcess([x \in {TempUploadPath} |-> ui_sess[s].uploaded.file],
                                       TempUploadPath) :
                /\ built.vectorstore.built
                /\ ui_sess[s].vectorstore = built.vectorstore
                /\ ui_sess[s].num_chunks = built.num_chunks

=============================================================================
